---- MODULE Spec2Model ----
(***************************************************************************)
(* CommandCanvas: the shell:write warning pipeline of ipc-handlers.ts, the *)
(* WarningEngine it calls and the ShellManager it writes to; and, around   *)
(* it, the warning overlay, the ConfigManager, the restart path of the     *)
(* terminal renderer and the EventBus.                                     *)
(*                                                                         *)
(* Characters are their char codes.  A warning id 'warn-' + Date.now() is  *)
(* the pair <<"warn-", n>>.  A regular expression is the sequence of its   *)
(* parsed nodes (see RegExpTest).                                          *)
(***************************************************************************)
EXTENDS Integers, Sequences, FiniteSets, TLC

VARIABLES
    \* ---- ipc-handlers.ts, registerAllHandlers closure state
    lineBuffer,         \* let lineBuffer = ''
    pendingCommands,    \* Map<string, PendingCommand>
    inEscapeSequence,   \* let inEscapeSequence = false
    \* ---- WarningEngine fields
    enabled,            \* private enabled: boolean
    allRules,           \* private allRules: WarningRule[]
    compiledRules,      \* private compiledRules: CompiledRule[]
    \* ---- ShellManager fields
    ptyProcess,         \* 0 is null, n > 0 is the n-th spawned pty
    exitCallbacks,      \* number of callbacks in this.exitCallbacks
    killedByUser,       \* private killedByUser
    \* ---- environment
    zombies,            \* killed or replaced ptys whose exit notification is still to come
    spawned,            \* number of ptys spawned so far
    running,            \* the pty of the latest spawn while its process runs, else 0
    clock,              \* the latest Date.now() reading
    \* ---- history variables (never read by the modelled code)
    written,            \* every byte a pty has received, in order
    input,              \* every byte shell:write has processed, with its branch
    holds,              \* every hold, with what became of it
    config,             \* the WarningsConfig the engine was constructed with
    added,              \* the rules passed to addRule, in call order
    engineCall,         \* the latest evaluate() or getRules() call and its result
    \* ---- modules around the pipeline, each a record of its fields
    overlay,            \* warning-overlay.ts module state and the decisions it sent
    configManager,      \* ConfigManager.config, its pending calls and the disk
    terminalRenderer,   \* terminal-renderer.ts module state and the spawns it asked for
    eventBus            \* EventBus.listeners and the emit in progress

vars == <<lineBuffer, pendingCommands, inEscapeSequence, enabled, allRules,
          compiledRules, ptyProcess, exitCallbacks, killedByUser, zombies,
          spawned, running, clock, written, input, holds, config, added,
          engineCall, overlay, configManager, terminalRenderer, eventBus>>

\* The pipeline: handlers, engine, shell manager and their history.
pipelineVars == <<lineBuffer, pendingCommands, inEscapeSequence, enabled,
                  allRules, compiledRules, ptyProcess, exitCallbacks,
                  killedByUser, zombies, spawned, running, clock, written,
                  input, holds, config, added, engineCall>>

\* The modules around it.
otherModules == <<overlay, configManager, terminalRenderer, eventBus>>

\* What only the WarningEngine calls below change or record.
engineVars == <<config, added, engineCall>>

\* ------------------------------------------------------------------ bounds
\* Bytes processed by shell:write in one behaviour.
MaxInput == 3
\* Longest payload of one shell:write call.
MaxChunk == 2
\* Latest clock reading (milliseconds since the first).
MaxClock == 1
\* Ptys spawned in one behaviour.
MaxSpawns == 2
\* addRule calls in one behaviour.
MaxAdded == 2
\* MAX_LINE_BUFFER_LENGTH of ipc-handlers.ts (65536 there), scaled down.
MAX_LINE_BUFFER_LENGTH == 2

\* ------------------------------------------------------------------ characters
ESC == 27
CR == 13
LF == 10
DEL == 127
BS == 8
CTRL_U == 21
SPACE_LIMIT == 32

\* The bytes the renderer sends as keystrokes in this model: ESC, '[', 'r',
\* ' ', DEL, Ctrl+C, CR and LF.
InputChars == {ESC, 91, 114, 32, DEL, 3, CR, LF}

\* The bytes of a pasted payload in this model: 'r', CR and LF.
PasteChars == {114, CR, LF}

Terminators == {CR, LF}

\* A code point above U+FFFF (U+1F600): the string iterator of the loop yields it
\* as one char, a string of two UTF-16 code units.
ASTRAL == 128512
HIGH_SURROGATE == 55357
LOW_SURROGATE == 56832

\* The keys of a typing session in this model: ESC, '[', 'O', 'r', ' ', DEL,
\* Ctrl+C, Tab, CR and one character outside the basic plane.
TypingChars == {ESC, 91, 79, 114, 32, DEL, 3, 9, CR, ASTRAL}

\* The UTF-16 code units of the string char; lineBuffer is a sequence of them.
CodeUnits(char) ==
    IF char > 65535 THEN <<HIGH_SURROGATE, LOW_SURROGATE>> ELSE <<char>>

\* /[A-Za-z~]/.test(char)
IsEscapeFinal(c) == (c >= 65 /\ c <= 90) \/ (c >= 97 /\ c <= 122) \/ c = 126

\* White space as String.prototype.trim and \s see it (ASCII part).
IsWhiteSpace(c) == c \in {9, 10, 11, 12, 13, 32}

RECURSIVE TrimStart(_)
TrimStart(s) ==
    IF s # <<>> /\ IsWhiteSpace(Head(s)) THEN TrimStart(Tail(s)) ELSE s

RECURSIVE TrimEnd(_)
TrimEnd(s) ==
    IF s # <<>> /\ IsWhiteSpace(s[Len(s)])
    THEN TrimEnd(SubSeq(s, 1, Len(s) - 1))
    ELSE s

\* String.prototype.trim
Trim(s) == TrimEnd(TrimStart(s))

\* lineBuffer.slice(0, -1)
SliceDropLast(s) == IF s = <<>> THEN <<>> ELSE SubSeq(s, 1, Len(s) - 1)

\* ------------------------------------------------------------------ RegExp
\* A pattern is a sequence of nodes:
\*   [t |-> "lit", c |-> code]   the character (compared ignoring case)
\*   [t |-> "bol"]               ^
\*   [t |-> "ws+"]               \s+
\*   [t |-> "any*"]              .*
\*   [t |-> "alpha*"]            [a-zA-Z]*
\*   [t |-> "alt", a |-> p, b |-> q]   (p|q)
\*   [t |-> "bad"]               an unbalanced '(' : new RegExp throws
Lit(c) == [t |-> "lit", c |-> c]
Bol == [t |-> "bol"]
Ws1 == [t |-> "ws+"]
AnyStar == [t |-> "any*"]
AlphaStar == [t |-> "alpha*"]
Alt(p, q) == [t |-> "alt", a |-> p, b |-> q]
Bad == [t |-> "bad"]

Lits(s) == [i \in 1..Len(s) |-> Lit(s[i])]

\* The 'i' flag: compare letters ignoring case.
ToLower(c) == IF c >= 65 /\ c <= 90 THEN c + 32 ELSE c

IsAlpha(c) == (c >= 65 /\ c <= 90) \/ (c >= 97 /\ c <= 122)

RECURSIVE Compiles(_)
\* new RegExp(pattern, 'i') does not throw
Compiles(p) ==
    \A i \in 1..Len(p) :
        /\ p[i].t # "bad"
        /\ p[i].t = "alt" => Compiles(p[i].a) /\ Compiles(p[i].b)

RECURSIVE MatchHere(_, _, _)
\* The nodes p match a prefix of s starting at position j.
MatchHere(p, s, j) ==
    IF p = <<>> THEN TRUE
    ELSE LET h == Head(p)
             r == Tail(p)
             n == Len(s)
         IN CASE h.t = "lit" ->
                    /\ j <= n
                    /\ ToLower(s[j]) = ToLower(h.c)
                    /\ MatchHere(r, s, j + 1)
              [] h.t = "bol" -> j = 1 /\ MatchHere(r, s, j)
              [] h.t = "ws+" ->
                    \E k \in (j + 1)..(n + 1) :
                        /\ \A x \in j..(k - 1) : IsWhiteSpace(s[x])
                        /\ MatchHere(r, s, k)
              [] h.t = "any*" ->
                    \E k \in j..(n + 1) :
                        /\ \A x \in j..(k - 1) : s[x] # LF /\ s[x] # CR
                        /\ MatchHere(r, s, k)
              [] h.t = "alpha*" ->
                    \E k \in j..(n + 1) :
                        /\ \A x \in j..(k - 1) : IsAlpha(s[x])
                        /\ MatchHere(r, s, k)
              [] h.t = "alt" ->
                    MatchHere(h.a \o r, s, j) \/ MatchHere(h.b \o r, s, j)
              [] OTHER -> FALSE

\* regex.test(s): a match may start anywhere.
RegExpTest(p, s) == \E j \in 1..(Len(s) + 1) : MatchHere(p, s, j)

\* ------------------------------------------------------------------ WarningEngine
\* BUILT_IN_RULES, in catalog order.  The alternation of rm-rf is the source's
\* group '(-[a-zA-Z]*r[a-zA-Z]*f|f[a-zA-Z]*r)'.
BUILT_IN_RULES == <<
    [id |-> "rm-rf", riskLevel |-> "critical",
     description |->
        "Recursively deletes files without confirmation. Can destroy important data.",
     recommendation |->
        "Double-check the target path. Consider using trash-cli instead.",
     pattern |-> Lits(<<114, 109>>) \o <<Ws1,
        Alt(<<Lit(45), AlphaStar, Lit(114), AlphaStar, Lit(102)>>,
            <<Lit(102), AlphaStar, Lit(114)>>)>>],
    [id |-> "rm-root", riskLevel |-> "critical",
     description |->
        "Targets the root filesystem for deletion.",
     recommendation |->
        "This will destroy your entire system. Almost certainly not what you want.",
     pattern |-> Lits(<<114, 109>>) \o <<Ws1, AnyStar, Ws1, Lit(47)>>],
    [id |-> "sudo", riskLevel |-> "medium",
     description |->
        "Executes command with superuser privileges.",
     recommendation |->
        "Verify you trust this command before running with elevated permissions.",
     pattern |-> <<Bol>> \o Lits(<<115, 117, 100, 111>>) \o <<Ws1>>],
    [id |-> "git-reset-hard", riskLevel |-> "high",
     description |->
        "Discards all uncommitted changes permanently.",
     recommendation |->
        "Consider git stash first to preserve your changes.",
     pattern |-> Lits(<<103, 105, 116>>) \o <<Ws1>>
                 \o Lits(<<114, 101, 115, 101, 116>>) \o <<Ws1>>
                 \o Lits(<<45, 45, 104, 97, 114, 100>>)],
    [id |-> "git-force-push", riskLevel |-> "high",
     description |->
        "Overwrites remote history. Can cause data loss for collaborators.",
     recommendation |->
        "Use --force-with-lease for a safer alternative.",
     pattern |-> Lits(<<103, 105, 116>>) \o <<Ws1>>
                 \o Lits(<<112, 117, 115, 104>>) \o <<Ws1, AnyStar>>
                 \o Lits(<<45, 45, 102, 111, 114, 99, 101>>)],
    [id |-> "chmod-777", riskLevel |-> "high",
     description |->
        "Sets file permissions to fully open (read/write/execute for everyone).",
     recommendation |->
        "Use more restrictive permissions like 755 or 644.",
     pattern |-> Lits(<<99, 104, 109, 111, 100>>) \o <<Ws1>>
                 \o Lits(<<55, 55, 55>>)],
    [id |-> "dd", riskLevel |-> "critical",
     description |->
        "Low-level disk copy tool. Can overwrite disk partitions.",
     recommendation |->
        "Verify the of= (output file) parameter extremely carefully.",
     pattern |-> <<Bol>> \o Lits(<<100, 100>>) \o <<Ws1>>],
    [id |-> "mkfs", riskLevel |-> "critical",
     description |->
        "Formats a filesystem partition, destroying all data on it.",
     recommendation |->
        "Triple-check the target device before executing.",
     pattern |-> Lits(<<109, 107, 102, 115>>)],
    [id |-> "git-clean-fd", riskLevel |-> "high",
     description |->
        "Permanently removes untracked files from the working directory.",
     recommendation |->
        "Run git clean -n first for a dry-run preview.",
     pattern |-> Lits(<<103, 105, 116>>) \o <<Ws1>>
                 \o Lits(<<99, 108, 101, 97, 110>>)
                 \o <<Ws1, AnyStar, Lit(45), AlphaStar, Lit(102)>>],
    [id |-> "curl-pipe-sh", riskLevel |-> "high",
     description |->
        "Downloads and immediately executes a remote script.",
     recommendation |->
        "Download the script first, review it, then execute.",
     pattern |-> Lits(<<99, 117, 114, 108>>)
                 \o <<Ws1, AnyStar, Lit(124), AnyStar>>
                 \o Lits(<<115, 104>>)]
>>

\* The WarningsConfig the pipeline runs with: no built-in rule disabled and one
\* custom rule whose pattern is 'r'.
PipelineConfig(en) ==
    [enabled |-> en,
     disabledBuiltInRules |-> {},
     customRules |-> <<[id |-> "custom-r", riskLevel |-> "high",
                        description |-> "Custom rule r.",
                        recommendation |-> "Think twice.",
                        pattern |-> Lits(<<114>>)]>>]

\* No evaluate() or getRules() call yet.
NoCall == [op |-> "none"]

RECURSIVE CompileRulesAborts(_)
\* Mutant of CompileRules: the first pattern that does not compile ends the loop.
CompileRulesAborts(rules) ==
    IF rules = <<>> \/ ~Compiles(Head(rules).pattern) THEN <<>>
    ELSE <<Head(rules)>> \o CompileRulesAborts(Tail(rules))

\* compileRules(): the rules whose pattern compiles, in allRules order.
CompileRules(rules) == SelectSeq(rules, LAMBDA r : Compiles(r.pattern))

\* Mutant of ConstructAllRules: disabledBuiltInRules is not looked at.
ConstructAllRulesKeepsDisabled(cfg) == BUILT_IN_RULES \o cfg.customRules

\* constructor: the built-in rules that are not disabled, then the custom rules.
ConstructAllRules(cfg) ==
    SelectSeq(BUILT_IN_RULES, LAMBDA r : r.id \notin cfg.disabledBuiltInRules)
        \o cfg.customRules

\* 'warn-' + Date.now()
WarningId(now) == <<"warn-", now>>

NoWarning == [matched |-> FALSE]

RECURSIVE FirstMatchLast(_, _, _)
\* Mutant of FirstMatch: a later matching rule replaces an earlier one.
FirstMatchLast(rules, trimmed, now) ==
    IF rules = <<>> THEN NoWarning
    ELSE LET later == FirstMatchLast(Tail(rules), trimmed, now)
         IN IF later.matched THEN later
            ELSE IF RegExpTest(Head(rules).pattern, trimmed)
                 THEN [matched |-> TRUE,
                       warningId |-> WarningId(now),
                       ruleId |-> Head(rules).id,
                       riskLevel |-> Head(rules).riskLevel,
                       command |-> trimmed,
                       description |-> Head(rules).description,
                       recommendation |-> Head(rules).recommendation]
                 ELSE NoWarning

RECURSIVE FirstMatch(_, _, _)
\* for (const { rule, regex } of this.compiledRules) if (regex.test(trimmed)) return ...
FirstMatch(rules, trimmed, now) ==
    IF rules = <<>> THEN NoWarning
    ELSE IF RegExpTest(Head(rules).pattern, trimmed)
         THEN [matched |-> TRUE,
               warningId |-> WarningId(now),
               ruleId |-> Head(rules).id,
               riskLevel |-> Head(rules).riskLevel,
               command |-> trimmed,
               description |-> Head(rules).description,
               recommendation |-> Head(rules).recommendation]
         ELSE FirstMatch(Tail(rules), trimmed, now)

\* Mutant of Evaluate: a call after the first millisecond matches nothing.
EvaluateFirstCallOnly(en, rules, command, now) ==
    IF ~en \/ now > 0 THEN NoWarning
    ELSE IF Trim(command) = <<>> THEN NoWarning
    ELSE FirstMatch(rules, Trim(command), now)

\* Mutant of Evaluate: the enabled flag is not looked at.
EvaluateIgnoresEnabled(en, rules, command, now) ==
    IF Trim(command) = <<>> THEN NoWarning
    ELSE FirstMatch(rules, Trim(command), now)

\* WarningEngine.evaluate(command), with Date.now() reading `now`.
Evaluate(en, rules, command, now) ==
    IF ~en THEN NoWarning
    ELSE IF Trim(command) = <<>> THEN NoWarning
    ELSE FirstMatch(rules, Trim(command), now)

\* Rules a configuration or addRule may bring in this model: one whose pattern
\* 'r(' does not compile, 'r' at low risk and 'rm' at critical risk. The
\* configuration brings the first two, addRule the first or the last.
CustomBad == [id |-> "custom-bad", riskLevel |-> "high",
              description |-> "Custom rule with a broken pattern.",
              recommendation |-> "None.",
              pattern |-> <<Lit(114), Bad>>]

CustomR == [id |-> "custom-r", riskLevel |-> "low",
            description |-> "Custom rule r.",
            recommendation |-> "Think twice.",
            pattern |-> Lits(<<114>>)]

CustomRm == [id |-> "custom-rm", riskLevel |-> "critical",
             description |-> "Custom rule rm.",
             recommendation |-> "Use the trash.",
             pattern |-> Lits(<<114, 109>>)]

RulePool == {CustomBad, CustomRm}

\* The WarningsConfig values an engine is constructed with in this model.
EngineConfigs ==
    [enabled : BOOLEAN,
     disabledBuiltInRules : {{}, {"rm-rf"}},
     customRules : {<<>>, <<CustomBad, CustomR>>}]

\* The commands evaluate() is called with: 'rm -rf /', 'rm', ' r ', ' ' and ''.
Commands ==
    {<<114, 109, 32, 45, 114, 102, 32, 47>>, <<114, 109>>, <<32, 114, 32>>,
     <<32>>, <<>>}

\* addRule(rule): appended to allRules, then everything is compiled again.
AddRule(rule) ==
    /\ Len(added) < MaxAdded
    /\ allRules' = Append(allRules, rule)
    /\ compiledRules' = CompileRules(allRules')
    /\ added' = Append(added, rule)
    /\ UNCHANGED otherModules
    /\ UNCHANGED <<lineBuffer, pendingCommands, inEscapeSequence, enabled,
                   ptyProcess, exitCallbacks, killedByUser, zombies, spawned, running,
                   clock, written, input, holds, config, engineCall>>

\* setEnabled(enabled)
SetEnabled(b) ==
    /\ enabled' = b
    /\ UNCHANGED otherModules
    /\ UNCHANGED <<lineBuffer, pendingCommands, inEscapeSequence, allRules,
                   compiledRules, ptyProcess, exitCallbacks, killedByUser,
                   zombies, spawned, running, clock, written, input, holds, config,
                   added, engineCall>>

\* A call of evaluate(command) from outside the pipeline (the warning:check
\* handler returns its result); Date.now() reads the latest clock value.
EvaluateCall(command) ==
    /\ engineCall' = [op |-> "evaluate", command |-> command,
                      enabled |-> enabled,
                      result |-> Evaluate(enabled, compiledRules, command, clock)]
    /\ UNCHANGED otherModules
    /\ UNCHANGED <<lineBuffer, pendingCommands, inEscapeSequence, enabled,
                   allRules, compiledRules, ptyProcess, exitCallbacks,
                   killedByUser, zombies, spawned, running, clock, written, input,
                   holds, config, added>>

\* Time passes: the next Date.now() reads a later value.
Tick ==
    /\ clock < MaxClock
    /\ clock' = clock + 1
    /\ UNCHANGED otherModules
    /\ UNCHANGED <<lineBuffer, pendingCommands, inEscapeSequence, enabled,
                   allRules, compiledRules, ptyProcess, exitCallbacks,
                   killedByUser, zombies, spawned, running, written, input,
                   holds, config, added, engineCall>>

\* getRules(): a new array whose elements are the rule objects of allRules
\* themselves; shared counts the leading elements of the caller's array that are
\* those objects.
GetRules ==
    /\ engineCall' = [op |-> "getRules", rules |-> allRules,
                      shared |-> Len(allRules)]
    /\ UNCHANGED otherModules
    /\ UNCHANGED <<lineBuffer, pendingCommands, inEscapeSequence, enabled,
                   allRules, compiledRules, ptyProcess, exitCallbacks,
                   killedByUser, zombies, spawned, running, clock, written, input,
                   holds, config, added>>

\* The risk levels a caller writes into a rule object it got from getRules().
CallerLevels == {"low"}

\* The caller of getRules() pushes a rule object of its own onto the array it
\* got; the array holds at most one such object at a time.
CallerPush(rule) ==
    /\ engineCall.op = "getRules"
    /\ Len(engineCall.rules) = engineCall.shared
    /\ engineCall' = [engineCall EXCEPT !.rules = Append(@, rule)]
    /\ UNCHANGED otherModules
    /\ UNCHANGED <<lineBuffer, pendingCommands, inEscapeSequence, enabled,
                   allRules, compiledRules, ptyProcess, exitCallbacks,
                   killedByUser, zombies, spawned, running, clock, written, input,
                   holds, config, added>>

\* The caller of getRules() pops the last element off the array it got.
CallerPop ==
    /\ engineCall.op = "getRules"
    /\ engineCall.rules # <<>>
    /\ engineCall' =
            [engineCall EXCEPT
                !.rules = SubSeq(@, 1, Len(@) - 1),
                !.shared = IF @ < Len(engineCall.rules) THEN @
                           ELSE Len(engineCall.rules) - 1]
    /\ UNCHANGED otherModules
    /\ UNCHANGED <<lineBuffer, pendingCommands, inEscapeSequence, enabled,
                   allRules, compiledRules, ptyProcess, exitCallbacks,
                   killedByUser, zombies, spawned, running, clock, written, input,
                   holds, config, added>>

\* The position in compiledRules of the entry { rule, regex } whose rule is the
\* object allRules[i] (the pattern of allRules[i] compiles).
CompiledIndex(i) == Len(CompileRules(SubSeq(allRules, 1, i)))

\* The caller of getRules() assigns riskLevel of the i-th element of the array
\* it got.  The element is the rule object that allRules[i] and the entry of
\* compiledRules refer to, so all three see the new value; the compiled regex
\* is not touched.
CallerSetRiskLevel(i, level) ==
    /\ engineCall.op = "getRules"
    /\ i \in 1..engineCall.shared
    /\ engineCall' = [engineCall EXCEPT !.rules[i].riskLevel = level]
    /\ allRules' = [allRules EXCEPT ![i].riskLevel = level]
    /\ compiledRules' =
            IF Compiles(allRules[i].pattern)
            THEN [compiledRules EXCEPT ![CompiledIndex(i)].riskLevel = level]
            ELSE compiledRules
    /\ UNCHANGED otherModules
    /\ UNCHANGED <<lineBuffer, pendingCommands, inEscapeSequence, enabled,
                   ptyProcess, exitCallbacks, killedByUser, zombies, spawned, running,
                   clock, written, input, holds, config, added>>

\* ------------------------------------------------------------------ ShellManager
\* ShellManager.write(data): dropped when there is no pty.
ShellManagerWrite(w, pty, data) == IF pty # 0 THEN Append(w, data) ELSE w

\* ShellManager.isAlive()
IsAlive == ptyProcess # 0

\* ------------------------------------------------------------------ shell:write
\* pendingCommands.set(id, entry)
MapSet(m, id, entry) ==
    [x \in (DOMAIN m) \cup {id} |-> IF x = id THEN entry ELSE m[x]]

\* pendingCommands.delete(id)
MapDelete(m, id) == [x \in (DOMAIN m) \ {id} |-> m[x]]

EmptyMap == [x \in {} |-> 0]

\* History: a hold that is overwritten in the map by a later hold of the same id.
Supersede(hs, id) ==
    [k \in 1..Len(hs) |->
        IF hs[k].id = id /\ hs[k].status = "pending"
        THEN [hs[k] EXCEPT !.status = "lost"]
        ELSE hs[k]]

\* History: the branch taken for one byte, and the line buffer it found.
Logged(st, c, br) == Append(st.input, [c |-> c, br |-> br, buf |-> st.lineBuffer])

\* The pendingData stored for a held terminator.
HeldData(char) == CR

\* getWebContents(): the focused window or the first one.  The window whose
\* renderer sent the message being handled exists, so there is one.
GetWebContents == "webContents"

\* The WarningDisplayPayload built from the warning result.
WarningPayload(res) ==
    [warningId |-> res.warningId, command |-> res.command,
     riskLevel |-> res.riskLevel, description |-> res.description,
     recommendation |-> res.recommendation]

\* if (wc) wc.send(WARNING_TRIGGERED, warningPayload): the payloads sent.
WarningTriggered(res) ==
    IF GetWebContents # "null" THEN <<WarningPayload(res)>> ELSE <<>>

\* Mutant of HoldEnter: the warning is not sent to the renderer.
HoldEnterSilent(st, pty, char, res) ==
    [st EXCEPT
        !.pendingCommands =
            MapSet(@, res.warningId,
                   [warningId |-> res.warningId, pendingData |-> HeldData(char)]),
        !.clock = res.warningId[2],
        !.input = Logged(st, char, "enter-hold"),
        !.holds = Append(Supersede(@, res.warningId),
                         [id |-> res.warningId, char |-> char,
                          cmd |-> res.command, rule |-> res.ruleId,
                          pid |-> pty, status |-> "pending", writes |-> 0,
                          late |-> FALSE, sent |-> <<>>])]

\* Mutant of HoldEnter: the held terminator is also forwarded.
HoldEnterForwards(st, pty, char, res) ==
    [st EXCEPT
        !.pendingCommands =
            MapSet(@, res.warningId,
                   [warningId |-> res.warningId, pendingData |-> HeldData(char)]),
        !.written = ShellManagerWrite(@, pty, char),
        !.clock = res.warningId[2],
        !.input = Logged(st, char, "enter-hold"),
        !.holds = Append(Supersede(@, res.warningId),
                         [id |-> res.warningId, char |-> char,
                          cmd |-> res.command, rule |-> res.ruleId,
                          pid |-> pty, status |-> "pending", writes |-> 0,
                          late |-> FALSE, sent |-> WarningTriggered(res)])]

\* Mutant of HoldEnter: the line buffer is cleared when the hold is placed.
HoldEnterClears(st, pty, char, res) ==
    [st EXCEPT
        !.pendingCommands =
            MapSet(@, res.warningId,
                   [warningId |-> res.warningId, pendingData |-> HeldData(char)]),
        !.lineBuffer = <<>>,
        !.clock = res.warningId[2],
        !.input = Logged(st, char, "enter-hold"),
        !.holds = Append(Supersede(@, res.warningId),
                         [id |-> res.warningId, char |-> char,
                          cmd |-> res.command, rule |-> res.ruleId,
                          pid |-> pty, status |-> "pending", writes |-> 0,
                          late |-> FALSE, sent |-> WarningTriggered(res)])]

\* The Enter branch when evaluate() returned a warning: the terminator is held.
HoldEnter(st, pty, char, res) ==
    [st EXCEPT
        !.pendingCommands =
            MapSet(@, res.warningId,
                   [warningId |-> res.warningId, pendingData |-> HeldData(char)]),
        !.clock = res.warningId[2],
        !.input = Logged(st, char, "enter-hold"),
        !.holds = Append(Supersede(@, res.warningId),
                         [id |-> res.warningId, char |-> char,
                          cmd |-> res.command, rule |-> res.ruleId,
                          pid |-> pty, status |-> "pending", writes |-> 0,
                          late |-> FALSE, sent |-> WarningTriggered(res)])]

\* Mutant of PassEnter: the terminator is forwarded but the buffer is kept.
PassEnterKeepsBuffer(st, pty, char, br) ==
    [st EXCEPT
        !.written = ShellManagerWrite(@, pty, char),
        !.input = Logged(st, char, br)]

\* The Enter branch when the command is empty or evaluate() returned null.
PassEnter(st, pty, char, br) ==
    [st EXCEPT
        !.written = ShellManagerWrite(@, pty, char),
        !.lineBuffer = <<>>,
        !.input = Logged(st, char, br)]

\* char === '\x1b': the escape introducer is forwarded and escape mode begins.
EscapeStart(st, pty, char) ==
    [st EXCEPT !.inEscapeSequence = TRUE,
               !.written = ShellManagerWrite(@, pty, char),
               !.input = Logged(st, char, "esc")]

\* Mutant of EscapeByte: a line terminator ends escape mode as well.
EscapeByteEndsAtTerminator(st, pty, char) ==
    [st EXCEPT !.written = ShellManagerWrite(@, pty, char),
               !.inEscapeSequence =
                    IF IsEscapeFinal(char) \/ char \in Terminators THEN FALSE
                    ELSE @,
               !.input = Logged(st, char, "inesc")]

\* if (inEscapeSequence): forwarded without buffering; a letter or ~ ends the mode.
EscapeByte(st, pty, char) ==
    [st EXCEPT !.written = ShellManagerWrite(@, pty, char),
               !.inEscapeSequence = IF IsEscapeFinal(char) THEN FALSE ELSE @,
               !.input = Logged(st, char, "inesc")]

\* Mutant of Backspace: a backspace on an empty buffer is swallowed.
BackspaceSwallowed(st, pty, char) ==
    [st EXCEPT !.lineBuffer = SliceDropLast(@),
               !.written = IF st.lineBuffer = <<>> THEN @
                           ELSE ShellManagerWrite(@, pty, char),
               !.input = Logged(st, char, "bs")]

\* char === '\x7f' || char === '\b'
Backspace(st, pty, char) ==
    [st EXCEPT !.lineBuffer = SliceDropLast(@),
               !.written = ShellManagerWrite(@, pty, char),
               !.input = Logged(st, char, "bs")]

\* Mutant of ControlChar: the byte is forwarded but the buffer is kept.
ControlCharKeepsBuffer(st, pty, char) ==
    [st EXCEPT !.written = ShellManagerWrite(@, pty, char),
               !.input = Logged(st, char, "ctrl")]

\* char.charCodeAt(0) < 0x20 && char !== '\r' && char !== '\n'
ControlChar(st, pty, char) ==
    [st EXCEPT !.lineBuffer = <<>>,
               !.written = ShellManagerWrite(@, pty, char),
               !.input = Logged(st, char, "ctrl")]

\* Regular character: appended below the cap, forwarded always.
RegularChar(st, pty, char) ==
    [st EXCEPT !.lineBuffer =
                    IF Len(@) < MAX_LINE_BUFFER_LENGTH THEN @ \o CodeUnits(char)
                    ELSE @,
               !.written = ShellManagerWrite(@, pty, char),
               !.input = Logged(st, char, "char")]

\* char === '\r' || char === '\n'
Enter(st, pty, char, now) ==
    LET command == Trim(st.lineBuffer)
        res == Evaluate(st.enabled, st.compiledRules, command, now)
    IN IF Len(command) = 0 THEN PassEnter(st, pty, char, "enter-empty")
       ELSE IF ~res.matched THEN PassEnter(st, pty, char, "enter-pass")
       ELSE HoldEnter(st, pty, char, res)

\* Mutant of ProcessChar: while a decision is pending the byte is dropped.
ProcessCharSuspends(st, pty, char, now) ==
    IF st.pendingCommands # EmptyMap
    THEN [st EXCEPT !.input = Logged(st, char, "suspended")]
    ELSE IF char = ESC THEN EscapeStart(st, pty, char)
    ELSE IF st.inEscapeSequence THEN EscapeByte(st, pty, char)
    ELSE IF char = DEL \/ char = BS THEN Backspace(st, pty, char)
    ELSE IF char < SPACE_LIMIT /\ char # CR /\ char # LF
         THEN ControlChar(st, pty, char)
    ELSE IF char = CR \/ char = LF THEN Enter(st, pty, char, now)
    ELSE RegularChar(st, pty, char)

\* One iteration of the loop 'for (const char of data)'; now is what Date.now()
\* returns if evaluate() reads it.
ProcessChar(st, pty, char, now) ==
    IF char = ESC THEN EscapeStart(st, pty, char)
    ELSE IF st.inEscapeSequence THEN EscapeByte(st, pty, char)
    ELSE IF char = DEL \/ char = BS THEN Backspace(st, pty, char)
    ELSE IF char < SPACE_LIMIT /\ char # CR /\ char # LF
         THEN ControlChar(st, pty, char)
    ELSE IF char = CR \/ char = LF THEN Enter(st, pty, char, now)
    ELSE RegularChar(st, pty, char)

RECURSIVE ProcessCharsStopsAtHold(_, _, _, _)
\* Mutant of ProcessChars: the loop ends at the first held terminator, the rest
\* of the payload is dropped.
ProcessCharsStopsAtHold(st, pty, data, times) ==
    IF data = <<>> THEN st
    ELSE LET nx == ProcessChar(st, pty, Head(data), Head(times))
         IN IF Len(nx.holds) > Len(st.holds) THEN nx
            ELSE ProcessCharsStopsAtHold(nx, pty, Tail(data), Tail(times))

RECURSIVE ProcessChars(_, _, _, _)
\* The loop over the payload; times[i] is the clock while data[i] is processed.
ProcessChars(st, pty, data, times) ==
    IF data = <<>> THEN st
    ELSE ProcessChars(ProcessChar(st, pty, Head(data), Head(times)),
                      pty, Tail(data), Tail(times))

\* The state the loop reads and writes.
LoopState ==
    [lineBuffer |-> lineBuffer, inEscapeSequence |-> inEscapeSequence,
     pendingCommands |-> pendingCommands, enabled |-> enabled,
     compiledRules |-> compiledRules, clock |-> clock,
     written |-> written, input |-> input, holds |-> holds]

\* Payloads of one shell:write call.
Pastes == UNION {[1..n -> PasteChars] : n \in 2..MaxChunk}

Payloads == [1..1 -> InputChars] \cup Pastes

\* Clock readings during one call: never before the latest reading, never
\* running backwards.
ClockReadings(n) ==
    {ts \in [1..n -> clock..MaxClock] :
        \A i \in 1..(n - 1) : ts[i] <= ts[i + 1]}

\* Mutant of ShellWrite: the loop runs whether or not a shell is alive.
ShellWriteUnguarded(data, times, budget) ==
    /\ Len(input) + Len(data) <= budget
    /\ LET st == ProcessChars(LoopState, ptyProcess, data, times)
       IN /\ lineBuffer' = st.lineBuffer
          /\ inEscapeSequence' = st.inEscapeSequence
          /\ pendingCommands' = st.pendingCommands
          /\ clock' = st.clock
          /\ written' = st.written
          /\ input' = st.input
          /\ holds' = st.holds
    /\ UNCHANGED otherModules
    /\ UNCHANGED <<enabled, allRules, compiledRules, ptyProcess, exitCallbacks,
                   killedByUser, zombies, spawned, running, config, added,
                   engineCall>>

\* ipcMain.on(SHELL_WRITE): discarded when no shell is alive.  At most budget
\* bytes are processed in one behaviour.
ShellWrite(data, times, budget) ==
    /\ Len(input) + Len(data) <= budget
    /\ IF ~IsAlive
       THEN UNCHANGED <<lineBuffer, inEscapeSequence, pendingCommands, clock,
                        written, input, holds>>
       ELSE LET st == ProcessChars(LoopState, ptyProcess, data, times)
            IN /\ lineBuffer' = st.lineBuffer
               /\ inEscapeSequence' = st.inEscapeSequence
               /\ pendingCommands' = st.pendingCommands
               /\ clock' = st.clock
               /\ written' = st.written
               /\ input' = st.input
               /\ holds' = st.holds
    /\ UNCHANGED otherModules
    /\ UNCHANGED <<enabled, allRules, compiledRules, ptyProcess, exitCallbacks,
                   killedByUser, zombies, spawned, running, config, added, engineCall>>

\* The byte char takes the Enter branch with a command that is not empty, and
\* evaluate() gets as far as testing a regex on it.
ReachesRegExpTest(st, char) ==
    /\ char # ESC
    /\ ~st.inEscapeSequence
    /\ char = CR \/ char = LF
    /\ Len(Trim(st.lineBuffer)) # 0
    /\ st.enabled
    /\ st.compiledRules # <<>>

RECURSIVE ProcessCharsUntilThrow(_, _, _, _)
\* The loop over the payload when regex.test throws the first time it is called:
\* nothing catches the exception, so it leaves evaluate(), the loop and the
\* handler; the state is what the bytes before the terminator left.
ProcessCharsUntilThrow(st, pty, data, times) ==
    IF data = <<>> THEN st
    ELSE IF ReachesRegExpTest(st, Head(data))
         THEN [st EXCEPT !.input = Logged(st, Head(data), "enter-throw")]
    ELSE ProcessCharsUntilThrow(ProcessChar(st, pty, Head(data), Head(times)),
                                pty, Tail(data), Tail(times))

\* ipcMain.on(SHELL_WRITE) for a payload during which regex.test throws.
ShellWriteThrows(data, times, budget) ==
    /\ Len(input) + Len(data) <= budget
    /\ IsAlive
    /\ LET st == ProcessCharsUntilThrow(LoopState, ptyProcess, data, times)
       IN /\ st.input # <<>>
          /\ st.input[Len(st.input)].br = "enter-throw"
          /\ Len(st.input) > Len(input)
          /\ lineBuffer' = st.lineBuffer
          /\ inEscapeSequence' = st.inEscapeSequence
          /\ pendingCommands' = st.pendingCommands
          /\ clock' = st.clock
          /\ written' = st.written
          /\ input' = st.input
          /\ holds' = st.holds
    /\ UNCHANGED otherModules
    /\ UNCHANGED <<enabled, allRules, compiledRules, ptyProcess, exitCallbacks,
                   killedByUser, zombies, spawned, running, config, added, engineCall>>

\* ------------------------------------------------------------------ shell lifecycle
\* History: the holds still pending when the exit callback clears the map.
Orphan(hs) ==
    [k \in 1..Len(hs) |->
        IF hs[k].status = "pending" THEN [hs[k] EXCEPT !.status = "orphaned"]
        ELSE hs[k]]

\* The callback registered by shellManager.onExit in the shell:spawn handler,
\* run once per callback in this.exitCallbacks.
RunExitCallbacks ==
    IF exitCallbacks > 0
    THEN /\ lineBuffer' = <<>>
         /\ inEscapeSequence' = FALSE
         /\ pendingCommands' = EmptyMap
         /\ holds' = Orphan(holds)
    ELSE UNCHANGED <<lineBuffer, inEscapeSequence, pendingCommands, holds>>

\* ipcMain.on(SHELL_SPAWN): ShellManager.spawn (which kills a running pty and
\* drops the registered callbacks), then onData and onExit register anew.
ShellSpawn ==
    /\ spawned < MaxSpawns
    /\ spawned' = spawned + 1
    /\ ptyProcess' = spawned + 1
    /\ running' = spawned + 1
    /\ zombies' = IF ptyProcess # 0 \/ running # 0 THEN zombies + 1 ELSE zombies
    /\ killedByUser' = FALSE
    /\ exitCallbacks' = 1
    /\ UNCHANGED otherModules
    /\ UNCHANGED <<lineBuffer, pendingCommands, inEscapeSequence, enabled,
                   allRules, compiledRules, clock, written, input, holds,
                   config, added, engineCall>>

\* ipcMain.on(SHELL_KILL): ShellManager.kill().
ShellKill ==
    /\ IF ptyProcess # 0
       THEN /\ killedByUser' = TRUE
            /\ ptyProcess' = 0
            /\ zombies' = zombies + 1
            /\ running' = 0
       ELSE UNCHANGED <<killedByUser, ptyProcess, zombies, running>>
    /\ UNCHANGED otherModules
    /\ UNCHANGED <<lineBuffer, pendingCommands, inEscapeSequence, enabled,
                   allRules, compiledRules, exitCallbacks, spawned, clock,
                   written, input, holds, config, added, engineCall>>

\* ptyProcess.onExit of the pty of the latest spawn: the shell ended by itself.
PtyExit ==
    /\ running # 0
    /\ RunExitCallbacks
    /\ ptyProcess' = 0
    /\ running' = 0
    /\ UNCHANGED otherModules
    /\ UNCHANGED <<enabled, allRules, compiledRules, exitCallbacks,
                   killedByUser, zombies, spawned, clock, written, input,
                   config, added, engineCall>>

\* ptyProcess.onExit of a pty that kill() ended earlier: it runs the callbacks
\* registered now and sets this.ptyProcess = null.
KilledPtyExit ==
    /\ zombies > 0
    /\ zombies' = zombies - 1
    /\ RunExitCallbacks
    /\ ptyProcess' = 0
    /\ UNCHANGED otherModules
    /\ UNCHANGED <<enabled, allRules, compiledRules, exitCallbacks,
                   killedByUser, spawned, running, clock, written, input,
                   config, added, engineCall>>

\* ------------------------------------------------------------------ warning:confirm / cancel
\* History: the latest hold issued under id.
LatestHold(hs, id) ==
    CHOOSE k \in 0..Len(hs) :
        /\ k > 0 => hs[k].id = id
        /\ \A j \in (k + 1)..Len(hs) : hs[j].id # id
        /\ k = 0 => \A j \in 1..Len(hs) : hs[j].id # id

\* History: a confirm or cancel of id found a map entry: it is the entry of the
\* latest hold issued under id, and wrote bytes of it went to a pty.
Resolve(hs, id, how, wrote) ==
    [k \in 1..Len(hs) |->
        IF k = LatestHold(hs, id)
        THEN [hs[k] EXCEPT !.status = IF @ = "pending" THEN how ELSE @,
                           !.writes = @ + wrote]
        ELSE hs[k]]

\* History: a confirm or cancel of id that finds no map entry; it is noted on
\* the holds that were issued under id.
LateCall(hs, id) ==
    [k \in 1..Len(hs) |->
        IF hs[k].id = id THEN [hs[k] EXCEPT !.late = TRUE] ELSE hs[k]]

\* The ids the renderer may send.
WarningIds == {WarningId(n) : n \in 0..MaxClock}

\* Mutant of WarningConfirm: the clean-up runs whether or not the id was found.
WarningConfirmAlwaysCleans(id) ==
    /\ IF id \in DOMAIN pendingCommands
       THEN /\ written' = ShellManagerWrite(written, ptyProcess,
                                            pendingCommands[id].pendingData)
            /\ holds' = Resolve(holds, id, "confirmed", IF IsAlive THEN 1 ELSE 0)
       ELSE /\ holds' = LateCall(holds, id)
            /\ UNCHANGED written
    /\ pendingCommands' = MapDelete(pendingCommands, id)
    /\ lineBuffer' = <<>>
    /\ UNCHANGED otherModules
    /\ UNCHANGED <<inEscapeSequence, enabled, allRules, compiledRules,
                   ptyProcess, exitCallbacks, killedByUser, zombies, spawned, running,
                   clock, input, config, added, engineCall>>

\* ipcMain.on(WARNING_CONFIRM)
WarningConfirm(id) ==
    /\ IF id \in DOMAIN pendingCommands
       THEN /\ written' = ShellManagerWrite(written, ptyProcess,
                                            pendingCommands[id].pendingData)
            /\ pendingCommands' = MapDelete(pendingCommands, id)
            /\ lineBuffer' = <<>>
            /\ holds' = Resolve(holds, id, "confirmed", IF IsAlive THEN 1 ELSE 0)
       ELSE /\ holds' = LateCall(holds, id)
            /\ UNCHANGED <<written, pendingCommands, lineBuffer>>
    /\ UNCHANGED otherModules
    /\ UNCHANGED <<inEscapeSequence, enabled, allRules, compiledRules,
                   ptyProcess, exitCallbacks, killedByUser, zombies, spawned, running,
                   clock, input, config, added, engineCall>>

\* Mutant of WarningCancel: the held data is written instead of Ctrl+U.
WarningCancelForwards(id) ==
    /\ IF id \in DOMAIN pendingCommands
       THEN /\ pendingCommands' = MapDelete(pendingCommands, id)
            /\ lineBuffer' = <<>>
            /\ written' = ShellManagerWrite(written, ptyProcess,
                                            pendingCommands[id].pendingData)
            /\ holds' = Resolve(holds, id, "cancelled", IF IsAlive THEN 1 ELSE 0)
       ELSE /\ holds' = LateCall(holds, id)
            /\ UNCHANGED <<written, pendingCommands, lineBuffer>>
    /\ UNCHANGED otherModules
    /\ UNCHANGED <<inEscapeSequence, enabled, allRules, compiledRules,
                   ptyProcess, exitCallbacks, killedByUser, zombies, spawned, running,
                   clock, input, config, added, engineCall>>

\* Mutant of WarningCancel: the map entry is not deleted.
WarningCancelKeepsEntry(id) ==
    /\ IF id \in DOMAIN pendingCommands
       THEN /\ UNCHANGED pendingCommands
            /\ lineBuffer' = <<>>
            /\ written' = ShellManagerWrite(written, ptyProcess, CTRL_U)
            /\ holds' = Resolve(holds, id, "cancelled", 0)
       ELSE /\ holds' = LateCall(holds, id)
            /\ UNCHANGED <<written, pendingCommands, lineBuffer>>
    /\ UNCHANGED otherModules
    /\ UNCHANGED <<inEscapeSequence, enabled, allRules, compiledRules,
                   ptyProcess, exitCallbacks, killedByUser, zombies, spawned, running,
                   clock, input, config, added, engineCall>>

\* Mutant of WarningCancel: the whole map is cleared.
WarningCancelClearsAll(id) ==
    /\ IF id \in DOMAIN pendingCommands
       THEN /\ pendingCommands' = EmptyMap
            /\ lineBuffer' = <<>>
            /\ written' = ShellManagerWrite(written, ptyProcess, CTRL_U)
            /\ holds' = Resolve(holds, id, "cancelled", 0)
       ELSE /\ holds' = LateCall(holds, id)
            /\ UNCHANGED <<written, pendingCommands, lineBuffer>>
    /\ UNCHANGED otherModules
    /\ UNCHANGED <<inEscapeSequence, enabled, allRules, compiledRules,
                   ptyProcess, exitCallbacks, killedByUser, zombies, spawned, running,
                   clock, input, config, added, engineCall>>

\* ipcMain.on(WARNING_CANCEL)
WarningCancel(id) ==
    /\ IF id \in DOMAIN pendingCommands
       THEN /\ pendingCommands' = MapDelete(pendingCommands, id)
            /\ lineBuffer' = <<>>
            /\ written' = ShellManagerWrite(written, ptyProcess, CTRL_U)
            /\ holds' = Resolve(holds, id, "cancelled", 0)
       ELSE /\ holds' = LateCall(holds, id)
            /\ UNCHANGED <<written, pendingCommands, lineBuffer>>
    /\ UNCHANGED otherModules
    /\ UNCHANGED <<inEscapeSequence, enabled, allRules, compiledRules,
                   ptyProcess, exitCallbacks, killedByUser, zombies, spawned, running,
                   clock, input, config, added, engineCall>>

\* ------------------------------------------------------------------ modules around the pipeline
\* ---- warning-overlay.ts
\* Shows of the overlay in one behaviour.
MaxShown == 3

\* null, where the code holds a warningId or null.
NullId == <<>>

\* Module state after init(containerEl): nothing shown.  currentResolve and
\* rendered are 0 (null, an empty container) or the number of the show() call
\* whose promise, or whose DOM tree, it is.  History: warnings[n] is the id of
\* the n-th show() call, sent the confirmExecution / cancelExecution messages.
OverlayInit ==
    [currentResolve |-> 0, currentWarningId |-> NullId,
     boundKeydownHandler |-> FALSE, rendered |-> 0, warnings |-> <<>>,
     sent |-> <<>>]

\* hide(): the container is hidden and emptied, the key handler detached.
Hide(o) ==
    [o EXCEPT !.rendered = 0, !.boundKeydownHandler = FALSE,
              !.currentWarningId = NullId]

\* Mutant of DismissWithAction: the state is not cleared and the overlay stays.
DismissWithActionKeepsState(o, action) ==
    [o EXCEPT !.sent = IF o.currentWarningId # NullId
                       THEN Append(@, [action |-> action,
                                       warningId |-> o.currentWarningId,
                                       of |-> o.currentResolve])
                       ELSE @]

\* dismissWithAction(action): state cleared first, the decision sent if there
\* is a warningId, then hide().
DismissWithAction(o, action) ==
    Hide([o EXCEPT !.currentResolve = 0,
                   !.currentWarningId = NullId,
                   !.sent = IF o.currentWarningId # NullId
                            THEN Append(@, [action |-> action,
                                            warningId |-> o.currentWarningId,
                                            of |-> o.currentResolve])
                            ELSE @])

\* show(warning): a pending promise is dismissed as cancel, then the promise
\* executor sets the state, renders and attaches the key handler.
Show(o, warningId) ==
    LET d == IF o.currentResolve # 0 THEN DismissWithAction(o, "cancel") ELSE o
        n == Len(d.warnings) + 1
    IN [d EXCEPT !.currentResolve = n, !.currentWarningId = warningId,
                 !.rendered = n, !.boundKeydownHandler = TRUE,
                 !.warnings = Append(@, warningId)]

\* eventBus 'warning:show' -> show(payload)
OverlayShow(warningId) ==
    /\ Len(overlay.warnings) < MaxShown
    /\ overlay' = Show(overlay, warningId)
    /\ UNCHANGED <<configManager, terminalRenderer, eventBus>>
    /\ UNCHANGED pipelineVars

\* hide() called by another module.
OverlayHide ==
    /\ overlay' = Hide(overlay)
    /\ UNCHANGED <<configManager, terminalRenderer, eventBus>>
    /\ UNCHANGED pipelineVars

\* Click on 'Execute Anyway', which is in the container while it is rendered.
ClickExecute ==
    /\ overlay.rendered # 0
    /\ overlay' = DismissWithAction(overlay, "confirm")
    /\ UNCHANGED <<configManager, terminalRenderer, eventBus>>
    /\ UNCHANGED pipelineVars

\* Click on 'Cancel'.
ClickCancel ==
    /\ overlay.rendered # 0
    /\ overlay' = DismissWithAction(overlay, "cancel")
    /\ UNCHANGED <<configManager, terminalRenderer, eventBus>>
    /\ UNCHANGED pipelineVars

\* Click on the backdrop itself (e.target === backdrop).
ClickBackdrop ==
    /\ overlay.rendered # 0
    /\ overlay' = DismissWithAction(overlay, "cancel")
    /\ UNCHANGED <<configManager, terminalRenderer, eventBus>>
    /\ UNCHANGED pipelineVars

\* Escape pressed while the keydown handler is attached.
PressEscape ==
    /\ overlay.boundKeydownHandler
    /\ overlay' = DismissWithAction(overlay, "cancel")
    /\ UNCHANGED <<configManager, terminalRenderer, eventBus>>
    /\ UNCHANGED pipelineVars

\* ---- config-manager.ts
\* save and set calls in one behaviour.
MaxCalls == 2

\* Top-level keys of AppConfig, and the values a key takes.
ConfigKeys == {"shell", "ui"}

ConfigValues == {0, 1}

\* DEFAULT_CONFIG, which the constructor clones.
DEFAULT_CONFIG == [key \in ConfigKeys |-> 0]

\* No file at the temporary path.
NoFile == <<>>

\* After load(): this.config is the object heap[config] and the file holds the
\* same configuration.  calls are the save and set calls made so far, each with
\* where it stands in writeToDisk; tmp is the file at configFilePath + '.tmp',
\* disk the file at configFilePath.
ConfigManagerInit ==
    [config |-> 1, heap |-> <<DEFAULT_CONFIG>>, calls |-> <<>>,
     tmp |-> NoFile, disk |-> DEFAULT_CONFIG]

\* get(key) for every key: the configuration in memory.
Get(cm) == cm.heap[cm.config]

\* save(config) up to its first await: previous kept, this.config replaced by
\* the caller's object, writeToDisk started (fs.mkdir pending).
Save(cm, cfg) ==
    [cm EXCEPT !.heap = Append(@, cfg),
               !.config = Len(cm.heap) + 1,
               !.calls = Append(@, [op |-> "save", pc |-> "mkdir",
                                    previous |-> cm.config,
                                    content |-> NoFile])]

\* set(key, value) up to its first await: the object this.config refers to is
\* changed in place, writeToDisk started.
Set(cm, key, value) ==
    [cm EXCEPT !.heap[cm.config][key] = value,
               !.calls = Append(@, [op |-> "set", pc |-> "mkdir",
                                    previous |-> 0, content |-> NoFile])]

\* writeToDisk of call i goes on after an await that succeeded: after mkdir it
\* serialises this.config as it is then and starts writeFile; after writeFile
\* the temporary file holds the content and rename starts; after rename the
\* config file holds what the temporary file held.
WriteToDisk(cm, i) ==
    LET call == cm.calls[i]
    IN IF call.pc = "mkdir"
       THEN [cm EXCEPT !.calls[i].pc = "writeFile",
                       !.calls[i].content = Get(cm)]
       ELSE IF call.pc = "writeFile"
       THEN [cm EXCEPT !.calls[i].pc = "rename", !.tmp = call.content]
       ELSE [cm EXCEPT !.calls[i].pc = "done", !.disk = cm.tmp,
                       !.tmp = NoFile]

\* The await of call i rejects: save puts previous back and throws, set throws.
Rejected(cm, i) ==
    [cm EXCEPT !.calls[i].pc = "failed",
               !.config = IF cm.calls[i].op = "save"
                          THEN cm.calls[i].previous ELSE @]

\* The call is still waiting for the file system.
Pending(call) == call.pc \in {"mkdir", "writeFile", "rename"}

\* A call of save(config)
SaveCall(cfg) ==
    /\ Len(configManager.calls) < MaxCalls
    /\ configManager' = Save(configManager, cfg)
    /\ UNCHANGED <<overlay, terminalRenderer, eventBus>>
    /\ UNCHANGED pipelineVars

\* A call of set(key, value)
SetCall(key, value) ==
    /\ Len(configManager.calls) < MaxCalls
    /\ configManager' = Set(configManager, key, value)
    /\ UNCHANGED <<overlay, terminalRenderer, eventBus>>
    /\ UNCHANGED pipelineVars

\* The file-system operation call i waits for succeeds; a rename needs the
\* temporary file to be there.
FsResolves(i) ==
    /\ Pending(configManager.calls[i])
    /\ configManager.calls[i].pc = "rename" => configManager.tmp # NoFile
    /\ configManager' = WriteToDisk(configManager, i)
    /\ UNCHANGED <<overlay, terminalRenderer, eventBus>>
    /\ UNCHANGED pipelineVars

\* The file-system operation call i waits for fails.
FsRejects(i) ==
    /\ Pending(configManager.calls[i])
    /\ configManager' = Rejected(configManager, i)
    /\ UNCHANGED <<overlay, terminalRenderer, eventBus>>
    /\ UNCHANGED pipelineVars

\* ---- terminal-renderer.ts
\* Shell-exit notifications and Enter keypresses in one behaviour.
MaxExits == 4

MaxEnters == 5

\* After init(container), with the first shell running: no restart under way,
\* no restart listener on terminal.onData, no cooldown timer pending.  History:
\* events lists the exit notifications received ("exit"), the Enter keys typed
\* ("enter") and the window.api.shell.spawn requests made ("spawn").
TerminalRendererInit ==
    [restartInProgress |-> FALSE, restartListeners |-> 0, timers |-> 0,
     events |-> <<>>]

\* How many events of one kind the history holds.
EventCount(events, kind) ==
    Cardinality({i \in 1..Len(events) : events[i] = kind})

\* A shell the renderer asked for runs: the first one, or the one of the
\* latest spawn request, has not been reported as exited.
ShellReportedAlive(events) ==
    \A i \in 1..Len(events) :
        events[i] = "exit" => \E j \in (i + 1)..Len(events) : events[j] = "spawn"

\* restartShell(): returns at once while restartInProgress; else sets it, asks
\* for a spawn and starts the cooldown timer that clears it.
RestartShell(tr) ==
    IF tr.restartInProgress THEN tr
    ELSE [tr EXCEPT !.restartInProgress = TRUE,
                    !.events = Append(@, "spawn"),
                    !.timers = @ + 1]

RECURSIVE RunRestartListeners(_, _)
\* terminal.onData delivers Enter to n restart listeners: each disposes itself
\* and calls restartShell().
RunRestartListeners(tr, n) ==
    IF n = 0 THEN tr
    ELSE RunRestartListeners(
             RestartShell([tr EXCEPT !.restartListeners = @ - 1]), n - 1)

\* window.api.shell.onExit callback: the message is written and a one-time
\* listener for Enter is registered.
ShellExitNotification ==
    /\ EventCount(terminalRenderer.events, "exit") < MaxExits
    /\ ShellReportedAlive(terminalRenderer.events)
    /\ terminalRenderer' =
          [terminalRenderer EXCEPT !.restartListeners = @ + 1,
                                   !.events = Append(@, "exit")]
    /\ UNCHANGED <<overlay, configManager, eventBus>>
    /\ UNCHANGED pipelineVars

\* The user presses Enter: xterm calls every onData listener with '\r'.
EnterKey ==
    /\ EventCount(terminalRenderer.events, "enter") < MaxEnters
    /\ terminalRenderer' =
          RunRestartListeners(
              [terminalRenderer EXCEPT !.events = Append(@, "enter")],
              terminalRenderer.restartListeners)
    /\ UNCHANGED <<overlay, configManager, eventBus>>
    /\ UNCHANGED pipelineVars

\* setTimeout(() => { restartInProgress = false; }, 1000) fires.
CooldownElapsed ==
    /\ terminalRenderer.timers > 0
    /\ terminalRenderer' =
          [terminalRenderer EXCEPT !.restartInProgress = FALSE,
                                   !.timers = @ - 1]
    /\ UNCHANGED <<overlay, configManager, eventBus>>
    /\ UNCHANGED pipelineVars

\* ---- event-bus.ts
\* emit calls in one behaviour.
MaxEmits == 2

\* The event emitted, and the callbacks modules subscribe with.
BusEvent == "warning:show"

Callbacks == {"a", "b", "c"}

\* What a callback does when it is invoked: nothing to the bus, or on() or off()
\* of a callback for the event; then it returns or throws.
BusOps ==
    {[op |-> "none", callback |-> "a"]}
        \cup [op : {"on", "off"}, callback : Callbacks]

\* new EventBus(): no listeners, no emit running.  listeners maps an event to
\* its Set, a sequence in insertion order.  queue is what is left of the copy
\* emit iterates over.  History of the latest emit: registered is the Set when
\* emit was called, invoked the callbacks called, threw those that threw,
\* during those subscribed while it ran.
EventBusInit ==
    [listeners |-> EmptyMap, emitting |-> FALSE, queue |-> <<>>, emits |-> 0,
     registered |-> <<>>, invoked |-> <<>>, threw |-> {}, during |-> {}]

\* The callback is in the sequence.
InSeq(seq, x) == \E i \in 1..Len(seq) : seq[i] = x

\* this.listeners.get(event), an empty Set when there is none.
Listeners(map, event) == IF event \in DOMAIN map THEN map[event] ELSE <<>>

\* on(event, callback): the Set is created if missing; Set.add keeps the place
\* of a callback that is in it already.
On(map, event, callback) ==
    LET set == Listeners(map, event)
    IN MapSet(map, event,
              IF InSeq(set, callback) THEN set ELSE Append(set, callback))

\* off(event, callback): deleted from the Set; an empty Set is removed from the
\* map.
Off(map, event, callback) ==
    IF event \notin DOMAIN map THEN map
    ELSE LET set == SelectSeq(map[event], LAMBDA c : c # callback)
         IN IF set = <<>> THEN MapDelete(map, event)
            ELSE MapSet(map, event, set)

\* Mutant of RestOfCopy: emit iterates over the Set itself, which yields what is
\* in it now and was not visited yet.
RestOfLiveSet(queue, set, invoked) ==
    SelectSeq(set, LAMBDA c : ~InSeq(invoked, c))

\* 'for (const callback of [...callbacks])': what is left of the copy after one
\* more callback; the Set as it is now and the callbacks invoked play no part.
RestOfCopy(queue, set, invoked) == Tail(queue)

\* on(event, callback) by a module, outside an emit.
BusOn(callback) ==
    /\ ~eventBus.emitting
    /\ eventBus' = [eventBus EXCEPT
                       !.listeners = On(@, BusEvent, callback)]
    /\ UNCHANGED <<overlay, configManager, terminalRenderer>>
    /\ UNCHANGED pipelineVars

\* off(event, callback) by a module, outside an emit.
BusOff(callback) ==
    /\ ~eventBus.emitting
    /\ eventBus' = [eventBus EXCEPT
                       !.listeners = Off(@, BusEvent, callback)]
    /\ UNCHANGED <<overlay, configManager, terminalRenderer>>
    /\ UNCHANGED pipelineVars

\* emit(event) is called: the Set is looked up and copied.
EmitCall ==
    /\ ~eventBus.emitting
    /\ eventBus.emits < MaxEmits
    /\ eventBus' = [eventBus EXCEPT
                       !.emitting = TRUE,
                       !.emits = @ + 1,
                       !.queue = Listeners(eventBus.listeners, BusEvent),
                       !.registered = Listeners(eventBus.listeners, BusEvent),
                       !.invoked = <<>>, !.threw = {}, !.during = {}]
    /\ UNCHANGED <<overlay, configManager, terminalRenderer>>
    /\ UNCHANGED pipelineVars

\* One iteration of the loop in emit: the callback runs, does what to the bus,
\* and returns or throws; the catch logs the error and the loop goes on.
EmitInvoke(what, throws) ==
    /\ eventBus.emitting
    /\ eventBus.queue # <<>>
    /\ LET callback == Head(eventBus.queue)
           map == IF what.op = "on"
                  THEN On(eventBus.listeners, BusEvent, what.callback)
                  ELSE IF what.op = "off"
                  THEN Off(eventBus.listeners, BusEvent, what.callback)
                  ELSE eventBus.listeners
           invoked == Append(eventBus.invoked, callback)
       IN eventBus' = [eventBus EXCEPT
                          !.listeners = map,
                          !.invoked = invoked,
                          !.threw = IF throws THEN @ \cup {callback} ELSE @,
                          !.during = IF what.op = "on"
                                     THEN @ \cup {what.callback} ELSE @,
                          !.queue = RestOfCopy(eventBus.queue,
                                               Listeners(map, BusEvent),
                                               invoked)]
    /\ UNCHANGED <<overlay, configManager, terminalRenderer>>
    /\ UNCHANGED pipelineVars

\* The loop is over: emit returns.
EmitReturn ==
    /\ eventBus.emitting
    /\ eventBus.queue = <<>>
    /\ eventBus' = [eventBus EXCEPT !.emitting = FALSE]
    /\ UNCHANGED <<overlay, configManager, terminalRenderer>>
    /\ UNCHANGED pipelineVars

\* The state of the modules around the pipeline when the application starts.
OtherModulesInit ==
    /\ overlay = OverlayInit
    /\ configManager = ConfigManagerInit
    /\ terminalRenderer = TerminalRendererInit
    /\ eventBus = EventBusInit

\* ------------------------------------------------------------------ specifications
\* After registerAllHandlers: no shell yet, an empty buffer, an empty map.
Init ==
    /\ lineBuffer = <<>>
    /\ pendingCommands = EmptyMap
    /\ inEscapeSequence = FALSE
    /\ enabled = TRUE
    /\ allRules = ConstructAllRules(PipelineConfig(enabled))
    /\ compiledRules = CompileRules(allRules)
    /\ ptyProcess = 0
    /\ exitCallbacks = 0
    /\ killedByUser = FALSE
    /\ zombies = 0
    /\ spawned = 0
    /\ running = 0
    /\ clock = 0
    /\ written = <<>>
    /\ input = <<>>
    /\ holds = <<>>
    /\ config = PipelineConfig(enabled)
    /\ added = <<>>
    /\ engineCall = NoCall
    /\ OtherModulesInit

\* Every handler and every pty event.
Next ==
    \/ \E data \in Payloads : \E times \in ClockReadings(Len(data)) :
            ShellWrite(data, times, MaxInput - 1)
    \/ ShellSpawn
    \/ ShellKill
    \/ PtyExit
    \/ KilledPtyExit
    \/ \E id \in WarningIds : WarningConfirm(id)
    \/ \E id \in WarningIds : WarningCancel(id)

Spec == Init /\ [][Next]_vars

\* One shell session: the state after the first shell:spawn, with the engine
\* enabled or disabled by the configuration.
SessionInit ==
    /\ lineBuffer = <<>>
    /\ pendingCommands = EmptyMap
    /\ inEscapeSequence = FALSE
    /\ enabled \in BOOLEAN
    /\ allRules = ConstructAllRules(PipelineConfig(enabled))
    /\ compiledRules = CompileRules(allRules)
    /\ ptyProcess = 1
    /\ exitCallbacks = 1
    /\ killedByUser = FALSE
    /\ zombies = 0
    /\ spawned = 1
    /\ running = 1
    /\ clock = 0
    /\ written = <<>>
    /\ input = <<>>
    /\ holds = <<>>
    /\ config = PipelineConfig(enabled)
    /\ added = <<>>
    /\ engineCall = NoCall
    /\ OtherModulesInit

\* One more byte than in Spec, until the shell exits.
SessionNext ==
    \/ \E data \in Payloads : \E times \in ClockReadings(Len(data)) :
            ShellWrite(data, times, MaxInput)
    \/ PtyExit
    \/ \E id \in WarningIds : WarningConfirm(id)
    \/ \E id \in WarningIds : WarningCancel(id)

SessionSpec == SessionInit /\ [][SessionNext]_vars

\* One shell session with the engine enabled, typed key by key.
TypingInit == SessionInit /\ enabled = TRUE

\* One key per shell:write call, one byte more than in SessionSpec.
TypingNext ==
    \E char \in TypingChars : \E times \in ClockReadings(1) :
        ShellWrite(<<char>>, times, MaxInput + 1)

TypingSpec == TypingInit /\ [][TypingNext]_vars

\* An engine constructed from one of the configurations, and a shell session
\* that runs on it.
EngineInit ==
    /\ config \in EngineConfigs
    /\ enabled = config.enabled
    /\ allRules = ConstructAllRules(config)
    /\ compiledRules = CompileRules(allRules)
    /\ added = <<>>
    /\ engineCall = NoCall
    /\ lineBuffer = <<>>
    /\ pendingCommands = EmptyMap
    /\ inEscapeSequence = FALSE
    /\ ptyProcess = 1
    /\ exitCallbacks = 1
    /\ killedByUser = FALSE
    /\ zombies = 0
    /\ spawned = 1
    /\ running = 1
    /\ clock = 0
    /\ written = <<>>
    /\ input = <<>>
    /\ holds = <<>>
    /\ OtherModulesInit

\* The calls on the engine, and 'r' and Enter typed into the session.
EngineNext ==
    \/ \E rule \in RulePool : AddRule(rule)
    \/ \E b \in BOOLEAN : SetEnabled(b)
    \/ \E command \in Commands : EvaluateCall(command)
    \/ GetRules
    \/ \E char \in {114, CR} : ShellWrite(<<char>>, <<clock>>, MaxInput - 1)

EngineSpec == EngineInit /\ [][EngineNext]_vars

\* One shell session in which a regex test of the engine may throw.
FaultNext ==
    \/ \E data \in Payloads : \E times \in ClockReadings(Len(data)) :
            ShellWrite(data, times, MaxInput)
    \/ \E data \in Payloads : \E times \in ClockReadings(Len(data)) :
            ShellWriteThrows(data, times, MaxInput)
    \/ \E id \in WarningIds : WarningConfirm(id)
    \/ \E id \in WarningIds : WarningCancel(id)

FaultSpec == TypingInit /\ [][FaultNext]_vars

\* An engine that is asked again and again while time passes; it is switched
\* on and off and its rule list is left alone.
ClassifyNext ==
    \/ \E command \in Commands : EvaluateCall(command)
    \/ \E b \in BOOLEAN : SetEnabled(b)
    \/ GetRules
    \/ Tick

ClassifySpec == EngineInit /\ [][ClassifyNext]_vars

\* A caller that keeps the array getRules() returned and changes it: the list,
\* or the risk level of its first or its last element.
CallerNext ==
    \/ \E rule \in RulePool : AddRule(rule)
    \/ \E command \in Commands : EvaluateCall(command)
    \/ GetRules
    \/ \E rule \in RulePool : CallerPush(rule)
    \/ CallerPop
    \/ \E i \in {1, Len(allRules)} : \E level \in CallerLevels :
            CallerSetRiskLevel(i, level)

CallerSpec == EngineInit /\ [][CallerNext]_vars

\* One shell session in which the renderer also asks warning:check, while time
\* passes between the calls.
PreCheckNext ==
    \/ \E data \in Payloads : \E times \in ClockReadings(Len(data)) :
            ShellWrite(data, times, MaxInput - 1)
    \/ \E command \in Commands : EvaluateCall(command)
    \/ Tick
    \/ \E id \in WarningIds : WarningConfirm(id)
    \/ \E id \in WarningIds : WarningCancel(id)

PreCheckSpec == SessionInit /\ [][PreCheckNext]_vars

\* The warning overlay: warnings arrive from the main process, the user clicks
\* and presses Escape.
OverlayNext ==
    \/ \E warningId \in WarningIds : OverlayShow(warningId)
    \/ OverlayHide
    \/ ClickExecute
    \/ ClickCancel
    \/ ClickBackdrop
    \/ PressEscape

OverlaySpec == Init /\ [][OverlayNext]_vars

\* The configuration manager: save and set are called while earlier calls
\* still wait for the file system.
ConfigNext ==
    \/ \E cfg \in [ConfigKeys -> ConfigValues] : SaveCall(cfg)
    \/ \E key \in ConfigKeys : \E value \in ConfigValues : SetCall(key, value)
    \/ \E i \in 1..Len(configManager.calls) : FsResolves(i)
    \/ \E i \in 1..Len(configManager.calls) : FsRejects(i)

ConfigSpec == Init /\ [][ConfigNext]_vars

\* The terminal renderer: shells exit, the user presses Enter, cooldowns end.
RestartNext ==
    \/ ShellExitNotification
    \/ EnterKey
    \/ CooldownElapsed

RestartSpec == Init /\ [][RestartNext]_vars

\* The event bus: modules subscribe and unsubscribe, events are emitted, and
\* the callbacks use the bus while they run.
BusNext ==
    \/ \E callback \in Callbacks : BusOn(callback)
    \/ \E callback \in Callbacks : BusOff(callback)
    \/ EmitCall
    \/ \E what \in BusOps : \E throws \in BOOLEAN : EmitInvoke(what, throws)
    \/ EmitReturn

BusSpec == Init /\ [][BusNext]_vars

\* ------------------------------------------------------------------ properties
\* The bytes of the input history.
InputBytes == [i \in 1..Len(input) |-> input[i].c]

\* How many elements of the sequence s satisfy Test.
Count(s, Test(_)) == Cardinality({i \in 1..Len(s) : Test(s[i])})

IsTerminator(c) == c \in Terminators

\* The trimmed line matches an active rule of the enabled engine.
Risky(line) == Evaluate(enabled, compiledRules, line, 0).matched

\* A terminator that shell:write itself passed on to the shell.
PassedTerminator(e) == e.c \in Terminators /\ e.br # "enter-hold"

RECURSIVE SumWrites(_)
\* The withheld terminators that confirm calls wrote to a pty.
SumWrites(hs) == IF hs = <<>> THEN 0 ELSE Head(hs).writes + SumWrites(Tail(hs))

\* Every terminator a pty received was either passed on by shell:write when it
\* arrived or written by a confirm that found a map entry.
TerminatorsAccounted ==
    Count(written, IsTerminator) = Count(input, PassedTerminator) + SumWrites(holds)

WithheldByte(id) == holds[LatestHold(holds, id)].char

\* C2 (as stated): a confirm of a pending id writes exactly the terminator byte
\* that was withheld for it (LF for a held LF, CR for a held CR), once, and
\* removes the map entry.
C2_ConfirmWritesWithheldByte ==
    [][\A id \in WarningIds :
          (id \in DOMAIN pendingCommands /\ IsAlive /\ WarningConfirm(id))
              => /\ written' = Append(written, WithheldByte(id))
                 /\ id \notin DOMAIN pendingCommands']_vars

codeVars == <<lineBuffer, pendingCommands, inEscapeSequence, enabled, allRules,
              compiledRules, ptyProcess, exitCallbacks, killedByUser, written>>

\* C4: a confirm or cancel whose id is not in the map (never issued, or already
\* resolved) writes nothing and changes neither the map nor the line buffer
\* nor anything else.
C4_UnknownIdNoop ==
    [][\A id \in WarningIds :
          (id \notin DOMAIN pendingCommands
              /\ (WarningConfirm(id) \/ WarningCancel(id)))
              => UNCHANGED codeVars]_vars

\* C4 witness: a decision was confirmed or cancelled and a second call with the
\* same id followed.
C4_Witness ==
    \E k \in 1..Len(holds) :
        /\ holds[k].status \in {"confirmed", "cancelled"}
        /\ holds[k].late
        /\ holds[k].id \notin DOMAIN pendingCommands
        /\ holds[k].writes <= 1

\* The holds no confirm, cancel or exit has touched.
Untouched(h) == h.status \in {"pending", "lost"} /\ ~h.late

\* C5 (as stated): every hold gets an id no other hold of the session has, so
\* after k holds with no resolution the map has k entries.
C5_DistinctIds ==
    /\ \A i, j \in 1..Len(holds) : i # j => holds[i].id # holds[j].id
    /\ (\A k \in 1..Len(holds) : Untouched(holds[k]))
          => Cardinality(DOMAIN pendingCommands) = Len(holds)

\* C6: while the input holds no line terminator, the shell has received every
\* input byte once and in arrival order, and nothing is or was held.
C6_NoTerminatorAllForwarded ==
    (\A i \in 1..Len(input) : input[i].c \notin Terminators)
        => /\ written = InputBytes
           /\ pendingCommands = EmptyMap
           /\ holds = <<>>

\* C6 witness: three bytes without a terminator, among them an escape sequence
\* and an edit, all forwarded.
C6_Witness ==
    /\ Len(input) = 3
    /\ \A i \in 1..Len(input) : input[i].c \notin Terminators
    /\ \E i \in 1..Len(input) : input[i].br \in {"inesc", "bs", "ctrl"}
    /\ written = InputBytes

\* A printable byte: neither a control byte nor DEL.
IsPrintable(c) == c >= 32 /\ c # DEL

\* The input is printable bytes followed by one line terminator.
PrintableLine ==
    /\ Len(input) >= 2
    /\ input[Len(input)].c \in Terminators
    /\ \A i \in 1..(Len(input) - 1) : IsPrintable(input[i].c)

\* C7: after printable bytes and a terminator whose trimmed content matches no
\* active rule, the shell has received the whole sequence in order, once, no
\* map entry exists and the line buffer is empty.
C7_SafeLineForwarded ==
    (PrintableLine /\ ~Risky(Trim(SubSeq(InputBytes, 1, Len(input) - 1))))
        => /\ written = InputBytes
           /\ pendingCommands = EmptyMap
           /\ holds = <<>>
           /\ lineBuffer = <<>>

\* C7 witness: a safe line with content was typed and its terminator forwarded.
C7_Witness ==
    /\ enabled
    /\ PrintableLine
    /\ input[Len(input)].br = "enter-pass"
    /\ written = InputBytes

\* C8 (as stated): once its shell session has ended, by exit or by kill, no
\* decision of it is still pending in the map.
C8_EndedSessionOrphans ==
    \A k \in 1..Len(holds) :
        holds[k].status = "pending" => holds[k].pid = ptyProcess

\* C9: under every interleaving, a withheld terminator is written at most
\* once, by a confirm, and never once its decision was cancelled or orphaned
\* by the exit callback.
C9_ResolvedAtMostOnce ==
    \A k \in 1..Len(holds) :
        /\ holds[k].writes <= 1
        /\ holds[k].writes = 1 => holds[k].status = "confirmed"

\* C9 witness: one decision confirmed and written once, then called again.
C9_Witness ==
    \E k \in 1..Len(holds) :
        /\ holds[k].status = "confirmed"
        /\ holds[k].writes = 1
        /\ holds[k].late

\* The last byte processed was a line terminator outside an escape sequence.
AfterEnter(branches) ==
    Len(input) > 0 /\ input[Len(input)].br \in branches

C11_AtMostOnePending == Cardinality(DOMAIN pendingCommands) <= 1

\* The bytes shell:write processed in this step.
NewInput == SubSeq(input', Len(input) + 1, Len(input'))

\* The bytes among es that shell:write did not hold, in order.
PassedOn(es) ==
    LET kept == SelectSeq(es, LAMBDA e : e.br # "enter-hold")
    IN [i \in 1..Len(kept) |-> kept[i].c]

\* C12 (as stated): while a decision is pending, no further input byte is
\* written to the shell.
C12_Original ==
    [][(pendingCommands # EmptyMap /\ Len(input') > Len(input))
          => written' = written]_vars

\* C12 (amended): while a decision is pending only withheld terminators are kept
\* from the shell: every other byte processed is written as it arrives, in
\* order, and the pending decisions stay pending.
C12_OnlyTerminatorsWithheld ==
    [][(pendingCommands # EmptyMap /\ Len(input') > Len(input))
          => /\ written' = written \o PassedOn(NewInput)
             /\ DOMAIN pendingCommands \subseteq DOMAIN pendingCommands']_vars

\* C12 witness: a byte typed after a hold reached the shell while the decision
\* was still pending.
C12_Witness ==
    /\ Len(input) >= 3
    /\ input[Len(input) - 1].br = "enter-hold"
    /\ input[Len(input)].br = "char"
    /\ pendingCommands # EmptyMap
    /\ \A k \in 1..Len(holds) : Untouched(holds[k])
    /\ written = PassedOn(input)

\* The byte shell:write processed in this step, when it processed one.
NewByte == input'[Len(input')].c

\* One byte was processed in this step, outside an escape sequence.
OneByteOutsideEscape ==
    Len(input') = Len(input) + 1 /\ NewByte # ESC /\ ~inEscapeSequence

\* The line buffer after the byte input[i] was processed (nothing but
\* shell:write touches the buffer in a typing session).
BufAfter(i) == IF i < Len(input) THEN input[i + 1].buf ELSE lineBuffer

\* Final bytes (0x40 to 0x7E) and parameter or intermediate bytes (0x20 to
\* 0x3F) of a terminal control sequence.
IsFinalByte(c) == c >= 64 /\ c <= 126

IsParamByte(c) == c >= 32 /\ c <= 63

\* input[i..j] is one terminal escape sequence: ESC O and a final byte (SS3:
\* F1 to F4, cursor and keypad keys in application mode), ESC [ with parameter
\* bytes and a final byte (CSI), or ESC and one byte (Alt+key).
IsEscapeSequence(i, j) ==
    /\ i < j
    /\ input[i].c = ESC
    /\ \/ j = i + 2 /\ input[i + 1].c = 79 /\ IsFinalByte(input[j].c)
       \/ /\ j >= i + 2
          /\ input[i + 1].c = 91
          /\ IsFinalByte(input[j].c)
          /\ \A k \in (i + 2)..(j - 1) : IsParamByte(input[k].c)
       \/ /\ j = i + 1
          /\ input[j].c \notin {79, 91}
          /\ input[j].c >= 48 /\ input[j].c <= 126

\* C13 (as stated): every byte of every terminal escape sequence is written to
\* the shell as it arrives, and the line buffer after the sequence is the
\* buffer before it.
C13_EscapeSequenceTransparent ==
    \A i, j \in 1..Len(input) :
        IsEscapeSequence(i, j)
            => /\ \A k \in i..j : input[k].br # "enter-hold"
               /\ written = PassedOn(input)
               /\ BufAfter(j) = input[i].buf

\* buf without its last character (a surrogate pair is one character).
DropLastChar(buf) ==
    IF buf = <<>> THEN <<>>
    ELSE IF /\ Len(buf) >= 2
            /\ buf[Len(buf) - 1] = HIGH_SURROGATE
            /\ buf[Len(buf)] = LOW_SURROGATE
         THEN SubSeq(buf, 1, Len(buf) - 2)
         ELSE SubSeq(buf, 1, Len(buf) - 1)

\* C14 (as stated): a backspace or delete byte outside an escape sequence is
\* written to the shell at once and removes exactly the last character of the
\* line buffer, or leaves an empty buffer empty.
C14_BackspaceRemovesLastChar ==
    [][(OneByteOutsideEscape /\ NewByte \in {DEL, BS})
          => /\ written' = Append(written, NewByte)
             /\ lineBuffer' = DropLastChar(lineBuffer)]_vars

\* C15: a control byte below 0x20 other than CR, LF, backspace and ESC, outside
\* an escape sequence, is written to the shell at once and empties the line
\* buffer.
C15_ControlByteClears ==
    [][(OneByteOutsideEscape /\ NewByte < 32 /\ NewByte \notin {CR, LF, BS})
          => /\ written' = Append(written, NewByte)
             /\ lineBuffer' = <<>>]_vars

\* C15 witness: Ctrl+C or Tab arrived with text in the buffer, was forwarded
\* and left the buffer empty.
C15_Witness ==
    \E i \in 1..Len(input) :
        /\ input[i].c \in {3, 9}
        /\ input[i].buf # <<>>
        /\ i = 1 \/ input[i - 1].br \notin {"esc", "inesc"}
        /\ BufAfter(i) = <<>>
        /\ written = PassedOn(input)

\* C16 (as stated): the line buffer is never longer than the cap, and at the
\* cap a further printable byte is written to the shell and not appended.
C16_BufferCapped ==
    /\ [](Len(lineBuffer) <= MAX_LINE_BUFFER_LENGTH)
    /\ [][(/\ OneByteOutsideEscape
           /\ IsPrintable(NewByte)
           /\ Len(lineBuffer) >= MAX_LINE_BUFFER_LENGTH)
          => /\ written' = Append(written, NewByte)
             /\ lineBuffer' = lineBuffer]_vars

\* The rule-set order: the built-in rules that are not disabled in catalog
\* order, the custom rules in configuration order, the rules passed to addRule
\* in call order.
ExpectedOrder ==
    SelectSeq(BUILT_IN_RULES, LAMBDA r : r.id \notin config.disabledBuiltInRules)
        \o config.customRules \o added

\* The positions in the rule-set order of the rules that compile and match.
Hits(candidate) ==
    {i \in 1..Len(ExpectedOrder) :
        /\ Compiles(ExpectedOrder[i].pattern)
        /\ RegExpTest(ExpectedOrder[i].pattern, candidate)}

FirstHit(hits) ==
    CHOOSE i \in hits : \A j \in hits : i <= j

\* This step is a call of evaluate(); engineCall' holds the command and the
\* result.
EvaluateReturned ==
    /\ engineCall' # engineCall
    /\ engineCall'.op = "evaluate"
    /\ EvaluateCall(engineCall'.command)

\* C17: evaluate returns the result for the first rule in rule-set order that
\* matches the trimmed command, whatever the risk levels, and none when no rule
\* matches.
C17_FirstMatchInRuleSetOrder ==
    [][(EvaluateReturned /\ enabled /\ Trim(engineCall'.command) # <<>>)
          => LET result == engineCall'.result
                 candidate == Trim(engineCall'.command)
                 hits == Hits(candidate)
                 first == ExpectedOrder[FirstHit(hits)]
             IN IF hits = {} THEN ~result.matched
                ELSE /\ result.matched
                     /\ result.ruleId = first.id
                     /\ result.riskLevel = first.riskLevel
                     /\ result.command = candidate]_vars

\* C17 witness: evaluate answered with a low-risk custom rule of the
\* configuration although a critical rule added by addRule matches as well.
C17_Witness ==
    /\ engineCall.op = "evaluate"
    /\ engineCall.result.matched
    /\ engineCall.result.ruleId = "custom-r"
    /\ engineCall.result.riskLevel = "low"
    /\ engineCall.command = <<114, 109>>
    /\ config.customRules # <<>>
    /\ \E k \in 1..Len(added) : added[k] = CustomRm

\* The characters of the bytes shell:write processed in this step.
NewChars == [i \in 1..Len(NewInput) |-> NewInput[i].c]

\* C18: evaluate returns none when the engine is disabled or the command is
\* empty after trimming, whatever the rules; and while the engine is disabled
\* every byte, terminators included, is written to the shell as it arrives and
\* no map entry is created.
C18_DisabledOrEmptyIsNone ==
    [][/\ (EvaluateReturned /\ (~enabled \/ Trim(engineCall'.command) = <<>>))
            => ~engineCall'.result.matched
       /\ (~enabled /\ Len(input') > Len(input))
            => /\ written' = written \o NewChars
               /\ pendingCommands' = pendingCommands
               /\ holds' = holds]_vars

\* C18 witness: with the engine disabled, the terminator of the line 'r' went
\* to the shell and evaluate answered none for 'rm', both matched by a
\* compiled rule.
C18_Witness ==
    /\ ~enabled
    /\ \E k \in 1..Len(compiledRules) : compiledRules[k] = CustomR
    /\ Len(input) >= 2
    /\ input[Len(input)].c = CR
    /\ input[Len(input)].buf = <<114>>
    /\ input[Len(input)].br = "enter-pass"
    /\ written = InputBytes
    /\ pendingCommands = EmptyMap
    /\ engineCall.op = "evaluate"
    /\ ~engineCall.enabled
    /\ engineCall.command = <<114, 109>>
    /\ ~engineCall.result.matched

\* C19: a rule whose pattern does not compile, given at construction or through
\* addRule, is left out and nothing else: the compiled rules are the compilable
\* rules of the rule set, in rule-set order.
C19_BadPatternSkipped ==
    compiledRules = SelectSeq(ExpectedOrder, LAMBDA r : Compiles(r.pattern))

\* C19 witness: evaluate matched a rule that stands behind an uncompilable rule
\* of the configuration, and a rule added after an uncompilable one is compiled.
C19_Witness ==
    /\ config.customRules # <<>>
    /\ Len(added) = 2
    /\ added[1] = CustomBad
    /\ added[2] = CustomRm
    /\ compiledRules[Len(compiledRules)] = CustomRm
    /\ engineCall.op = "evaluate"
    /\ engineCall.enabled
    /\ engineCall.result.matched
    /\ engineCall.result.ruleId = "custom-r"

\* C20 (as stated): the rule list getRules reports holds no rule whose pattern
\* failed to compile.
C20_GetRulesAllCompile ==
    engineCall.op = "getRules"
        => \A i \in 1..Len(engineCall.rules) :
              Compiles(engineCall.rules[i].pattern)

\* This step is the caller changing the value getRules() returned.
CallerMutation ==
    \/ \E rule \in RulePool : CallerPush(rule)
    \/ CallerPop
    \/ \E i \in 1..Len(allRules) : \E level \in CallerLevels :
            CallerSetRiskLevel(i, level)

\* C21 (as stated): no change a caller makes to the value getRules returned, to
\* the list or to the fields of its rule objects, changes what a later evaluate
\* or getRules call returns.
C21_ReturnedRulesDetached ==
    [][CallerMutation =>
          /\ allRules' = allRules
          /\ \A command \in Commands :
                Evaluate(enabled', compiledRules', command, clock')
                    = Evaluate(enabled, compiledRules, command, clock)]_vars

\* The evaluation of a terminator threw in this step.
EvaluateThrew ==
    /\ Len(input') > Len(input)
    /\ input'[Len(input')].br = "enter-throw"

\* C22 (as stated): when rule evaluation faults on a terminator, the terminator
\* is not written to the shell and the map holds a new pending entry for it.
C22_FaultHolds ==
    [][EvaluateThrew =>
          /\ Count(written', IsTerminator) - Count(written, IsTerminator)
                = Cardinality({i \in (Len(input) + 1)..(Len(input') - 1) :
                                  PassedTerminator(input'[i])})
          /\ Len(holds') > Len(holds)
          /\ holds'[Len(holds')].status = "pending"
          /\ holds'[Len(holds')].id \in DOMAIN pendingCommands']_vars

\* The input entries of the terminators that were held, in order.
HeldInputs == SelectSeq(input, LAMBDA e : e.br = "enter-hold")

\* The first rule of the compiled rules, in order, that matches the candidate.
FirstMatchingRule(candidate) ==
    compiledRules[FirstHit({i \in 1..Len(compiledRules) :
                              RegExpTest(compiledRules[i].pattern, candidate)})]

WrittenAtOnce(char) ==
    ENABLED (/\ ShellWrite(<<char>>, <<clock>>, Len(input) + 1)
             /\ written' = Append(written, char))

\* C24 (as stated): when a hold was placed and no decision is pending any more
\* (each was confirmed or cancelled, or the session ended and a new shell was
\* spawned), and the process of the latest spawn runs, a printable byte typed
\* now is written to the shell, and so is the terminator of a line that matches
\* no rule.
C24_NoPermanentBlock ==
    (holds # <<>> /\ pendingCommands = EmptyMap /\ running # 0)
        => /\ WrittenAtOnce(114)
           /\ ~Risky(lineBuffer) => WrittenAtOnce(CR)

\* What a result says about the command: everything but the warning id.
Classification(result) ==
    IF result.matched
    THEN [ruleId |-> result.ruleId, riskLevel |-> result.riskLevel,
          command |-> result.command, description |-> result.description,
          recommendation |-> result.recommendation]
    ELSE [ruleId |-> "none"]

RECURSIVE ShellLineFrom(_, _, _)
\* The input line a shell has after the bytes, starting from line: printable
\* bytes are appended, backspace removes the last one, a terminator, Ctrl+U
\* or another control byte starts an empty line, and the bytes of an escape
\* sequence are not text (esc: inside one).
ShellLineFrom(bytes, line, esc) ==
    IF bytes = <<>> THEN line
    ELSE LET c == Head(bytes)
             rest == Tail(bytes)
         IN IF c = ESC THEN ShellLineFrom(rest, line, TRUE)
            ELSE IF esc THEN ShellLineFrom(rest, line, ~IsEscapeFinal(c))
            ELSE IF c = DEL \/ c = BS
                 THEN ShellLineFrom(rest, SliceDropLast(line), FALSE)
            ELSE IF c < SPACE_LIMIT THEN ShellLineFrom(rest, <<>>, FALSE)
            ELSE ShellLineFrom(rest, Append(line, c), FALSE)

\* The shell's current input line.
ShellLine == ShellLineFrom(written, <<>>, FALSE)

\* C26 (as stated): when a confirm writes the withheld terminator, the shell's
\* current input line is, up to surrounding white space, the command that was
\* evaluated and shown for the id.
C26_ConfirmExecutesReviewedCommand ==
    [][\A id \in WarningIds :
          (WarningConfirm(id) /\ id \in DOMAIN pendingCommands /\ IsAlive)
              => Trim(ShellLine) = holds[LatestHold(holds, id)].cmd]_vars

C28_StaleExitIgnored ==
    /\ [](running # 0 => ptyProcess = running)
    /\ [][(KilledPtyExit /\ running # 0)
            => UNCHANGED <<ptyProcess, lineBuffer, inEscapeSequence,
                           pendingCommands, holds>>]_vars

\* C29 (as stated): in the state a shell:spawn leaves, in which the first byte
\* of the new session is processed when it arrives next, the line buffer is
\* empty and escape-sequence mode is off.
C29_NewSessionStartsClean ==
    [][ShellSpawn => (lineBuffer' = <<>> /\ ~inEscapeSequence')]_vars

\* C30: a shell:write call made while isAlive() is false writes nothing to a
\* shell and leaves the line buffer, the escape-sequence flag and the map as
\* they are, whatever the payload: no step that changes one of them in such a
\* state is a shell:write call.
C30_DeadShellDiscardsInput ==
    [][(/\ ~IsAlive
        /\ ~UNCHANGED <<written, lineBuffer, inEscapeSequence, pendingCommands>>)
          => \A data \in Payloads : \A times \in ClockReadings(Len(data)) :
                ~ShellWrite(data, times, MaxInput - 1)]_vars

\* C30 witness: the shell was killed with 'r' in the buffer, and a shell:write
\* call with Enter can be made now.
C30_Witness ==
    /\ ~IsAlive
    /\ killedByUser
    /\ lineBuffer = <<114>>
    /\ ENABLED ShellWrite(<<CR>>, <<clock>>, MaxInput - 1)

\* The warning:check handler returned a warning result to the renderer.
PreCheckReturned == engineCall.op = "evaluate" /\ engineCall.result.matched

\* C31: a pre-check through warning:check changes nothing in the pipeline (no
\* ledger entry, no write to the shell, the line buffer as it was), and a confirm
\* or cancel that carries the identifier the pre-check returned changes nothing
\* either.
C31_PreCheckLeavesPipelineAlone ==
    [][/\ (\E command \in Commands : EvaluateCall(command))
            => UNCHANGED <<pendingCommands, written, lineBuffer,
                           inEscapeSequence>>
       /\ (/\ PreCheckReturned
           /\ \/ WarningConfirm(engineCall.result.warningId)
              \/ WarningCancel(engineCall.result.warningId))
            => UNCHANGED <<pendingCommands, written, lineBuffer>>]_vars

RECURSIVE SingleByteCalls(_, _, _, _)
\* The state after one shell:write call per element of data, in order, each
\* call checking isAlive() for itself; times[i] is the clock during call i.
SingleByteCalls(st, pty, data, times) ==
    IF data = <<>> THEN st
    ELSE SingleByteCalls(IF pty # 0
                         THEN ProcessChars(st, pty, <<Head(data)>>, <<Head(times)>>)
                         ELSE st,
                         pty, Tail(data), Tail(times))

\* C32: a payload of n bytes handled in one shell:write call leaves the same
\* shell writes, the same holds and review events, the same ledger, line buffer
\* and escape flag as the same bytes handled in n calls of one byte each.
C32_ChunkEqualsSingleBytes ==
    [][Len(input') > Len(input) =>
        \A data \in {p \in Pastes : p[1] = NewChars[1]} :
        \A times \in ClockReadings(Len(data)) :
          ShellWrite(data, times, MaxInput) =>
             LET st == SingleByteCalls(LoopState, ptyProcess, data, times)
             IN /\ written' = st.written
                /\ holds' = st.holds
                /\ pendingCommands' = st.pendingCommands
                /\ lineBuffer' = st.lineBuffer
                /\ inEscapeSequence' = st.inEscapeSequence
                /\ input' = st.input]_vars

\* 'r' was typed and CR LF arrived in one payload: both terminators are held,
\* each with its review event, and nothing but 'r' went to the shell.
C32_Witness ==
    /\ InputBytes = <<114, CR, LF>>
    /\ written = <<114>>
    /\ Len(holds) = 2
    /\ \A k \in 1..2 : Len(holds[k].sent) = 1
    /\ lineBuffer = <<114>>

\* C33: a confirm or cancel of id takes only the entry of id out of the ledger:
\* every other entry stays with the data it holds; and a confirm of an id that
\* is in the ledger (such as one that stayed) writes that entry's data to the
\* live shell and removes it.
C33_OtherDecisionsStay ==
    [][\A id \in WarningIds :
        /\ (WarningConfirm(id) \/ WarningCancel(id)) =>
              \A other \in (DOMAIN pendingCommands) \ {id} :
                 /\ other \in DOMAIN pendingCommands'
                 /\ pendingCommands'[other] = pendingCommands[other]
        /\ (WarningConfirm(id) /\ id \in DOMAIN pendingCommands) =>
              /\ id \notin DOMAIN pendingCommands'
              /\ IsAlive => written' = Append(written, pendingCommands[id].pendingData)]_vars

\* Two lines were held under different ids; the first was cancelled, and the
\* second, which stayed in the ledger, was confirmed after that.
C33_Witness ==
    /\ Len(holds) = 2
    /\ holds[1].id # holds[2].id
    /\ holds[1].status = "cancelled"
    /\ holds[2].status = "confirmed"
    /\ written = <<114, CTRL_U, CR>>

\* The built-in rules the configuration disables.
DisabledBuiltIns ==
    {i \in 1..Len(BUILT_IN_RULES) :
        BUILT_IN_RULES[i].id \in config.disabledBuiltInRules}

\* C35: a built-in rule listed in disabledBuiltInRules is never the rule of a
\* result of evaluate and is not among the rules getRules returns; a candidate
\* such a rule matches gets the first match among the remaining rules in their
\* order, or none when none of them matches.
C35_DisabledBuiltInSkipped ==
    [][/\ (EvaluateReturned /\ engineCall'.result.matched)
            => engineCall'.result.ruleId \notin config.disabledBuiltInRules
       /\ GetRules
            => \A i \in 1..Len(engineCall'.rules) : \A k \in DisabledBuiltIns :
                  engineCall'.rules[i] # BUILT_IN_RULES[k]
       /\ (/\ EvaluateReturned
           /\ enabled
           /\ \E k \in DisabledBuiltIns :
                 RegExpTest(BUILT_IN_RULES[k].pattern, Trim(engineCall'.command)))
            => LET candidate == Trim(engineCall'.command)
                   remaining ==
                       SelectSeq(BUILT_IN_RULES \o config.customRules \o added,
                                 LAMBDA r : \A k \in DisabledBuiltIns :
                                                r # BUILT_IN_RULES[k])
                   hits == {i \in 1..Len(remaining) :
                               /\ Compiles(remaining[i].pattern)
                               /\ RegExpTest(remaining[i].pattern, candidate)}
               IN IF hits = {} THEN ~engineCall'.result.matched
                  ELSE /\ engineCall'.result.matched
                       /\ engineCall'.result.ruleId = remaining[FirstHit(hits)].id]_vars

\* 'rm -rf /' was evaluated with the built-in rule rm-rf disabled: the result
\* names the next built-in rule that matches it.
C35_Witness ==
    /\ config.disabledBuiltInRules = {"rm-rf"}
    /\ engineCall.op = "evaluate"
    /\ engineCall.command = <<114, 109, 32, 45, 114, 102, 32, 47>>
    /\ engineCall.result.matched
    /\ engineCall.result.ruleId = "rm-root"

\* The decision messages sent for the n-th warning shown.
DecisionsOf(n) == SelectSeq(overlay.sent, LAMBDA m : m.of = n)

\* C34: for every warning the overlay showed, at most one confirmExecution or
\* cancelExecution message was sent, and it carries that warning's id; and a
\* show() while a warning is displayed sends a cancel with the displayed
\* warning's id and then displays the new one.
C34_OneDecisionPerWarning ==
    /\ [](\A n \in 1..Len(overlay.warnings) :
            /\ Len(DecisionsOf(n)) <= 1
            /\ \A k \in 1..Len(DecisionsOf(n)) :
                  DecisionsOf(n)[k].warningId = overlay.warnings[n])
    /\ [][\A warningId \in WarningIds :
            (OverlayShow(warningId) /\ overlay.rendered # 0) =>
                /\ overlay'.sent =
                      Append(overlay.sent,
                             [action |-> "cancel",
                              warningId |-> overlay.warnings[overlay.rendered],
                              of |-> overlay.rendered])
                /\ overlay'.rendered = Len(overlay.warnings) + 1
                /\ overlay'.currentWarningId = warningId]_vars

\* A warning was replaced by a second one while it was displayed, and the
\* second one was confirmed: one cancel for the first, one confirm for the
\* second, and nothing is displayed any more.
C34_Witness ==
    /\ Len(overlay.warnings) = 2
    /\ overlay.warnings[1] # overlay.warnings[2]
    /\ overlay.sent = <<[action |-> "cancel", warningId |-> overlay.warnings[1],
                         of |-> 1],
                        [action |-> "confirm", warningId |-> overlay.warnings[2],
                         of |-> 2]>>
    /\ overlay.rendered = 0

\* Every save and set call made so far has returned or thrown.
AllCallsCompleted ==
    \A i \in 1..Len(configManager.calls) : ~Pending(configManager.calls[i])

\* C36: when all save and set calls have completed, whether their write went
\* through or failed, the configuration in memory is the one the last
\* successful write put on disk, or the one held before the calls when no
\* write succeeded.
C36_MemoryMatchesLastSuccessfulWrite ==
    AllCallsCompleted => Get(configManager) = configManager.disk

\* Event i is the first Enter after an exit notification.
FirstEnterAfterExit(events, i) ==
    /\ events[i] = "enter"
    /\ \E j \in 1..(i - 1) :
          /\ events[j] = "exit"
          /\ \A k \in (j + 1)..(i - 1) : events[k] # "enter"

\* C37: the first Enter after a shell-exit notification is followed by exactly
\* one spawn request, also when the previous restart was less than the
\* cooldown ago.
C37_EnterAfterExitSpawnsOnce ==
    LET events == terminalRenderer.events
    IN \A i \in 1..Len(events) :
          FirstEnterAfterExit(events, i) =>
             /\ i < Len(events)
             /\ events[i + 1] = "spawn"
             /\ i + 2 <= Len(events) => events[i + 2] # "spawn"

\* C38: an emit invokes the callbacks that were registered when it was called,
\* each once and in registration order, whether or not one of them throws,
\* subscribes or unsubscribes during the emit: while it runs, the callbacks
\* invoked and those still to come are together the registered ones, and when
\* it returns all of them were invoked; a callback subscribed during the emit
\* and not registered before is not invoked by it.
C38_EmitInvokesRegisteredOnce ==
    /\ eventBus.invoked \o eventBus.queue = eventBus.registered
    /\ (~eventBus.emitting /\ eventBus.emits > 0)
          => eventBus.invoked = eventBus.registered
    /\ \A c \in eventBus.during :
          ~InSeq(eventBus.registered, c) => ~InSeq(eventBus.invoked, c)

\* An emit with a and b registered has returned: a unsubscribed b and threw, b
\* was invoked all the same and subscribed c, which was not invoked.
C38_Witness ==
    /\ ~eventBus.emitting
    /\ eventBus.registered = <<"a", "b">>
    /\ eventBus.invoked = <<"a", "b">>
    /\ eventBus.threw = {"a"}
    /\ eventBus.during = {"c"}
    /\ Listeners(eventBus.listeners, BusEvent) = <<"a", "c">>

====
